---------------------------- MODULE Spec2Model ----------------------------
(***************************************************************************)
(* A model of the crypto-tweet-bot post pipeline: the freshness tracker    *)
(* (helpers/content_tracker.py), the selection and retry loop              *)
(* (agents/agent.py, generate_tweet) and the orchestrating pipeline        *)
(* (main.py, generate_and_post_tweet).                                     *)
(*                                                                         *)
(* A Python str is modelled as a sequence of one-character strings, so     *)
(* that lower(), split(), strip(), startswith(), replace() and the         *)
(* substring test `a in b` are computed as Python computes them.  Clock    *)
(* values and ISO timestamps are integers counting hours.                  *)
(***************************************************************************)
EXTENDS Integers, Sequences, FiniteSets, TLC

(***************************************************************************)
(* Python str primitives                                                   *)
(***************************************************************************)
UpperChars == <<"A", "B", "C", "D", "E", "F", "G", "H", "I", "J", "K", "L", "M", "N", "O", "P", "Q", "R", "S", "T", "U", "V", "W", "X", "Y", "Z">>
LowerChars == <<"a", "b", "c", "d", "e", "f", "g", "h", "i", "j", "k", "l", "m", "n", "o", "p", "q", "r", "s", "t", "u", "v", "w", "x", "y", "z">>

\* str.lower() on one character
LowerChar(c) ==
    IF \E i \in 1..Len(UpperChars) : UpperChars[i] = c
    THEN LowerChars[CHOOSE i \in 1..Len(UpperChars) : UpperChars[i] = c]
    ELSE c

\* str.lower()
Lower(s) == [i \in 1..Len(s) |-> LowerChar(s[i])]

\* the characters str.split() and str.strip() treat as whitespace
IsSpace(c) == c \in {" ", "\t", "\n", "\r"}

\* s[i:] (1-based here)
Drop(s, n) == SubSeq(s, n + 1, Len(s))

\* s.startswith(p)
StartsWith(s, p) == Len(p) <= Len(s) /\ SubSeq(s, 1, Len(p)) = p

\* the Python substring test `sub in s`
Contains(sub, s) ==
    \E i \in 0..(Len(s) - Len(sub)) : \A j \in 1..Len(sub) : s[i + j] = sub[j]

\* s.split(sep) for a one-character separator: the fields between separators
RECURSIVE SplitOn(_, _)
SplitOn(s, sep) ==
    IF \A i \in 1..Len(s) : s[i] # sep
    THEN <<s>>
    ELSE LET k == CHOOSE i \in 1..Len(s) :
                      s[i] = sep /\ \A j \in 1..(i - 1) : s[j] # sep
         IN  <<SubSeq(s, 1, k - 1)>> \o SplitOn(Drop(s, k), sep)

\* s.split(): the maximal runs of non-whitespace characters
RECURSIVE Split(_)
Split(s) ==
    IF \A i \in 1..Len(s) : IsSpace(s[i])
    THEN <<>>
    ELSE LET b == CHOOSE i \in 1..Len(s) :
                      ~IsSpace(s[i]) /\ \A j \in 1..(i - 1) : IsSpace(s[j])
             rest == Drop(s, b - 1)
             e == IF \A i \in 1..Len(rest) : ~IsSpace(rest[i])
                  THEN Len(rest)
                  ELSE (CHOOSE i \in 1..Len(rest) :
                            IsSpace(rest[i])
                            /\ \A j \in 1..(i - 1) : ~IsSpace(rest[j])) - 1
         IN  <<SubSeq(rest, 1, e)>> \o Split(Drop(rest, e))

\* s.strip()
RECURSIVE Strip(_)
Strip(s) ==
    IF s = <<>> THEN s
    ELSE IF IsSpace(s[1]) THEN Strip(Tail(s))
    ELSE IF IsSpace(s[Len(s)]) THEN Strip(SubSeq(s, 1, Len(s) - 1))
    ELSE s

\* s.replace(old, ""): every non-overlapping occurrence of old removed,
\* scanning from the left
RECURSIVE Remove(_, _)
Remove(s, old) ==
    IF Len(s) < Len(old) THEN s
    ELSE IF StartsWith(s, old) THEN Remove(Drop(s, Len(old)), old)
    ELSE <<s[1]>> \o Remove(Tail(s), old)

\* the elements of a sequence
Range(f) == {f[i] : i \in DOMAIN f}

\* s[:-n], the slice that drops the last n elements instead of keeping them
LastN_AllButLast(s, n) == IF Len(s) <= n THEN <<>> ELSE SubSeq(s, 1, Len(s) - n)

\* s[-n:]
LastN(s, n) == IF Len(s) <= n THEN s ELSE SubSeq(s, Len(s) - n + 1, Len(s))

\* s[:n]
FirstN(s, n) == IF Len(s) <= n THEN s ELSE SubSeq(s, 1, n)

(***************************************************************************)
(* The Python strings the model handles.  TLC cannot take a TLA+ string    *)
(* apart, so StrTable pairs every string a state can hold with its         *)
(* characters; Chars and Str convert between the two.                      *)
(***************************************************************************)
StrTable == {
    <<"",
      <<>>>>,
    <<"ETH staking yield",
      <<"E", "T", "H", " ", "s", "t", "a", "k", "i", "n", "g", " ", "y", "i", "e", "l", "d">>>>,
    <<"stake rewards",
      <<"s", "t", "a", "k", "e", " ", "r", "e", "w", "a", "r", "d", "s">>>>,
    <<"ETH staking yield stake rewards",
      <<"E", "T", "H", " ", "s", "t", "a", "k", "i", "n", "g", " ", "y", "i", "e", "l", "d", " ", "s", "t", "a", "k", "e", " ", "r", "e", "w", "a", "r", "d", "s">>>>,
    <<"ETH staking yieldstake rewards",
      <<"E", "T", "H", " ", "s", "t", "a", "k", "i", "n", "g", " ", "y", "i", "e", "l", "d", "s", "t", "a", "k", "e", " ", "r", "e", "w", "a", "r", "d", "s">>>>,
    <<"eth staking yieldstake rewards",
      <<"e", "t", "h", " ", "s", "t", "a", "k", "i", "n", "g", " ", "y", "i", "e", "l", "d", "s", "t", "a", "k", "e", " ", "r", "e", "w", "a", "r", "d", "s">>>>,
    <<"Layer2 network launch",
      <<"L", "a", "y", "e", "r", "2", " ", "n", "e", "t", "w", "o", "r", "k", " ", "l", "a", "u", "n", "c", "h">>>>,
    <<"scaling",
      <<"s", "c", "a", "l", "i", "n", "g">>>>,
    <<"Layer2 network launch scaling",
      <<"L", "a", "y", "e", "r", "2", " ", "n", "e", "t", "w", "o", "r", "k", " ", "l", "a", "u", "n", "c", "h", " ", "s", "c", "a", "l", "i", "n", "g">>>>,
    <<"Layer2 network launchscaling",
      <<"L", "a", "y", "e", "r", "2", " ", "n", "e", "t", "w", "o", "r", "k", " ", "l", "a", "u", "n", "c", "h", "s", "c", "a", "l", "i", "n", "g">>>>,
    <<"layer2 network launchscaling",
      <<"l", "a", "y", "e", "r", "2", " ", "n", "e", "t", "w", "o", "r", "k", " ", "l", "a", "u", "n", "c", "h", "s", "c", "a", "l", "i", "n", "g">>>>,
    <<"Exchange hack",
      <<"E", "x", "c", "h", "a", "n", "g", "e", " ", "h", "a", "c", "k">>>>,
    <<"security risk",
      <<"s", "e", "c", "u", "r", "i", "t", "y", " ", "r", "i", "s", "k">>>>,
    <<"Exchange hack security risk",
      <<"E", "x", "c", "h", "a", "n", "g", "e", " ", "h", "a", "c", "k", " ", "s", "e", "c", "u", "r", "i", "t", "y", " ", "r", "i", "s", "k">>>>,
    <<"Exchange hacksecurity risk",
      <<"E", "x", "c", "h", "a", "n", "g", "e", " ", "h", "a", "c", "k", "s", "e", "c", "u", "r", "i", "t", "y", " ", "r", "i", "s", "k">>>>,
    <<"exchange hacksecurity risk",
      <<"e", "x", "c", "h", "a", "n", "g", "e", " ", "h", "a", "c", "k", "s", "e", "c", "u", "r", "i", "t", "y", " ", "r", "i", "s", "k">>>>,
    <<"Bitcoin adoption",
      <<"B", "i", "t", "c", "o", "i", "n", " ", "a", "d", "o", "p", "t", "i", "o", "n">>>>,
    <<"users",
      <<"u", "s", "e", "r", "s">>>>,
    <<"Bitcoin adoption users",
      <<"B", "i", "t", "c", "o", "i", "n", " ", "a", "d", "o", "p", "t", "i", "o", "n", " ", "u", "s", "e", "r", "s">>>>,
    <<"Bitcoin adoptionusers",
      <<"B", "i", "t", "c", "o", "i", "n", " ", "a", "d", "o", "p", "t", "i", "o", "n", "u", "s", "e", "r", "s">>>>,
    <<"bitcoin adoptionusers",
      <<"b", "i", "t", "c", "o", "i", "n", " ", "a", "d", "o", "p", "t", "i", "o", "n", "u", "s", "e", "r", "s">>>>,
    <<"DAO vote",
      <<"D", "A", "O", " ", "v", "o", "t", "e">>>>,
    <<"community yield",
      <<"c", "o", "m", "m", "u", "n", "i", "t", "y", " ", "y", "i", "e", "l", "d">>>>,
    <<"DAO vote community yield",
      <<"D", "A", "O", " ", "v", "o", "t", "e", " ", "c", "o", "m", "m", "u", "n", "i", "t", "y", " ", "y", "i", "e", "l", "d">>>>,
    <<"DAO votecommunity yield",
      <<"D", "A", "O", " ", "v", "o", "t", "e", "c", "o", "m", "m", "u", "n", "i", "t", "y", " ", "y", "i", "e", "l", "d">>>>,
    <<"dao votecommunity yield",
      <<"d", "a", "o", " ", "v", "o", "t", "e", "c", "o", "m", "m", "u", "n", "i", "t", "y", " ", "y", "i", "e", "l", "d">>>>,
    <<"New license law",
      <<"N", "e", "w", " ", "l", "i", "c", "e", "n", "s", "e", " ", "l", "a", "w">>>>,
    <<"legal",
      <<"l", "e", "g", "a", "l">>>>,
    <<"New license law legal",
      <<"N", "e", "w", " ", "l", "i", "c", "e", "n", "s", "e", " ", "l", "a", "w", " ", "l", "e", "g", "a", "l">>>>,
    <<"New license lawlegal",
      <<"N", "e", "w", " ", "l", "i", "c", "e", "n", "s", "e", " ", "l", "a", "w", "l", "e", "g", "a", "l">>>>,
    <<"new license lawlegal",
      <<"n", "e", "w", " ", "l", "i", "c", "e", "n", "s", "e", " ", "l", "a", "w", "l", "e", "g", "a", "l">>>>,
    <<"I have no post today",
      <<"I", " ", "h", "a", "v", "e", " ", "n", "o", " ", "p", "o", "s", "t", " ", "t", "o", "d", "a", "y">>>>,
    <<"REASONING: nothing new\nTWEET: ",
      <<"R", "E", "A", "S", "O", "N", "I", "N", "G", ":", " ", "n", "o", "t", "h", "i", "n", "g", " ", "n", "e", "w", "\n", "T", "W", "E", "E", "T", ":", " ">>>>,
    <<"nothing new",
      <<"n", "o", "t", "h", "i", "n", "g", " ", "n", "e", "w">>>>,
    <<"REASONING: nothing new\nTWEET:  ",
      <<"R", "E", "A", "S", "O", "N", "I", "N", "G", ":", " ", "n", "o", "t", "h", "i", "n", "g", " ", "n", "e", "w", "\n", "T", "W", "E", "E", "T", ":", " ", " ">>>>,
    <<" ",
      <<" ">>>>,
    <<"REASONING: overview\nTWEET: Bitcoin ETH market: launch, users, law, hack, yield, network, DAO",
      <<"R", "E", "A", "S", "O", "N", "I", "N", "G", ":", " ", "o", "v", "e", "r", "v", "i", "e", "w", "\n", "T", "W", "E", "E", "T", ":", " ", "B", "i", "t", "c", "o", "i", "n", " ", "E", "T", "H", " ", "m", "a", "r", "k", "e", "t", ":", " ", "l", "a", "u", "n", "c", "h", ",", " ", "u", "s", "e", "r", "s", ",", " ", "l", "a", "w", ",", " ", "h", "a", "c", "k", ",", " ", "y", "i", "e", "l", "d", ",", " ", "n", "e", "t", "w", "o", "r", "k", ",", " ", "D", "A", "O">>>>,
    <<"overview",
      <<"o", "v", "e", "r", "v", "i", "e", "w">>>>,
    <<"Bitcoin ETH market: launch, users, law, hack, yield, network, DAO",
      <<"B", "i", "t", "c", "o", "i", "n", " ", "E", "T", "H", " ", "m", "a", "r", "k", "e", "t", ":", " ", "l", "a", "u", "n", "c", "h", ",", " ", "u", "s", "e", "r", "s", ",", " ", "l", "a", "w", ",", " ", "h", "a", "c", "k", ",", " ", "y", "i", "e", "l", "d", ",", " ", "n", "e", "t", "w", "o", "r", "k", ",", " ", "D", "A", "O">>>>,
    <<"bitcoin eth market: launch, users, law, hack, yield, network, dao",
      <<"b", "i", "t", "c", "o", "i", "n", " ", "e", "t", "h", " ", "m", "a", "r", "k", "e", "t", ":", " ", "l", "a", "u", "n", "c", "h", ",", " ", "u", "s", "e", "r", "s", ",", " ", "l", "a", "w", ",", " ", "h", "a", "c", "k", ",", " ", "y", "i", "e", "l", "d", ",", " ", "n", "e", "t", "w", "o", "r", "k", ",", " ", "d", "a", "o">>>>,
    <<"REASONING: adoption\nTWEET: BITCOIN adoption grows",
      <<"R", "E", "A", "S", "O", "N", "I", "N", "G", ":", " ", "a", "d", "o", "p", "t", "i", "o", "n", "\n", "T", "W", "E", "E", "T", ":", " ", "B", "I", "T", "C", "O", "I", "N", " ", "a", "d", "o", "p", "t", "i", "o", "n", " ", "g", "r", "o", "w", "s">>>>,
    <<"adoption",
      <<"a", "d", "o", "p", "t", "i", "o", "n">>>>,
    <<"BITCOIN adoption grows",
      <<"B", "I", "T", "C", "O", "I", "N", " ", "a", "d", "o", "p", "t", "i", "o", "n", " ", "g", "r", "o", "w", "s">>>>,
    <<"bitcoin adoption grows",
      <<"b", "i", "t", "c", "o", "i", "n", " ", "a", "d", "o", "p", "t", "i", "o", "n", " ", "g", "r", "o", "w", "s">>>>,
    <<"REASONING: rollups\nTWEET: Networks scale the Rollups network",
      <<"R", "E", "A", "S", "O", "N", "I", "N", "G", ":", " ", "r", "o", "l", "l", "u", "p", "s", "\n", "T", "W", "E", "E", "T", ":", " ", "N", "e", "t", "w", "o", "r", "k", "s", " ", "s", "c", "a", "l", "e", " ", "t", "h", "e", " ", "R", "o", "l", "l", "u", "p", "s", " ", "n", "e", "t", "w", "o", "r", "k">>>>,
    <<"rollups",
      <<"r", "o", "l", "l", "u", "p", "s">>>>,
    <<"Networks scale the Rollups network",
      <<"N", "e", "t", "w", "o", "r", "k", "s", " ", "s", "c", "a", "l", "e", " ", "t", "h", "e", " ", "R", "o", "l", "l", "u", "p", "s", " ", "n", "e", "t", "w", "o", "r", "k">>>>,
    <<"networks scale the rollups network",
      <<"n", "e", "t", "w", "o", "r", "k", "s", " ", "s", "c", "a", "l", "e", " ", "t", "h", "e", " ", "r", "o", "l", "l", "u", "p", "s", " ", "n", "e", "t", "w", "o", "r", "k">>>>,
    <<"REASONING: rollups\nTWEET: network scale the Rollups",
      <<"R", "E", "A", "S", "O", "N", "I", "N", "G", ":", " ", "r", "o", "l", "l", "u", "p", "s", "\n", "T", "W", "E", "E", "T", ":", " ", "n", "e", "t", "w", "o", "r", "k", " ", "s", "c", "a", "l", "e", " ", "t", "h", "e", " ", "R", "o", "l", "l", "u", "p", "s">>>>,
    <<"network scale the Rollups",
      <<"n", "e", "t", "w", "o", "r", "k", " ", "s", "c", "a", "l", "e", " ", "t", "h", "e", " ", "R", "o", "l", "l", "u", "p", "s">>>>,
    <<"network scale the rollups",
      <<"n", "e", "t", "w", "o", "r", "k", " ", "s", "c", "a", "l", "e", " ", "t", "h", "e", " ", "r", "o", "l", "l", "u", "p", "s">>>>,
    <<"DeFi yield is back",
      <<"D", "e", "F", "i", " ", "y", "i", "e", "l", "d", " ", "i", "s", " ", "b", "a", "c", "k">>>>,
    <<"Bitcoin",
      <<"B", "i", "t", "c", "o", "i", "n">>>>,
    <<"BTC",
      <<"B", "T", "C">>>>,
    <<"ETH",
      <<"E", "T", "H">>>>,
    <<"Ethereum",
      <<"E", "t", "h", "e", "r", "e", "u", "m">>>>,
    <<"SOL",
      <<"S", "O", "L">>>>,
    <<"Solana",
      <<"S", "o", "l", "a", "n", "a">>>>,
    <<"REASONING: ",
      <<"R", "E", "A", "S", "O", "N", "I", "N", "G", ":", " ">>>>,
    <<"TWEET: ",
      <<"T", "W", "E", "E", "T", ":", " ">>>>,
    <<"the market pumped today",
      <<"t", "h", "e", " ", "m", "a", "r", "k", "e", "t", " ", "p", "u", "m", "p", "e", "d", " ", "t", "o", "d", "a", "y">>>>,
    <<"the market pumped hard today",
      <<"t", "h", "e", " ", "m", "a", "r", "k", "e", "t", " ", "p", "u", "m", "p", "e", "d", " ", "h", "a", "r", "d", " ", "t", "o", "d", "a", "y">>>>,
    <<"layer2 adoption keeps growing",
      <<"l", "a", "y", "e", "r", "2", " ", "a", "d", "o", "p", "t", "i", "o", "n", " ", "k", "e", "e", "p", "s", " ", "g", "r", "o", "w", "i", "n", "g">>>>,
    <<"Monday notes",
      <<"M", "o", "n", "d", "a", "y", " ", "n", "o", "t", "e", "s">>>>,
    <<"Monday notes ",
      <<"M", "o", "n", "d", "a", "y", " ", "n", "o", "t", "e", "s", " ">>>>,
    <<"monday notes",
      <<"m", "o", "n", "d", "a", "y", " ", "n", "o", "t", "e", "s">>>>
}

\* the strings of the table
Strings == {p[1] : p \in StrTable}

\* the characters of a string
Chars(s) == (CHOOSE p \in StrTable : p[1] = s)[2]

\* the string with these characters
Str(cs) == (CHOOSE p \in StrTable : p[2] = cs)[1]

\* a + b and a + b + c on strings
Concat(a, b) == Str(Chars(a) \o Chars(b))
Concat3(a, b, c) == Str(Chars(a) \o Chars(b) \o Chars(c))

(***************************************************************************)
(* The operations on strings are computed once per string of the table    *)
(* (TLC evaluates a constant definition a single time) and looked up.      *)
(***************************************************************************)
\* s.lower(), as characters
LowerTable == [s \in Strings |-> Lower(Chars(s))]
LowerOf(s) == LowerTable[s]

\* s.split(), as characters
SplitTable == [s \in Strings |-> Split(Chars(s))]
Words(s) == SplitTable[s]

\* s.lower().split(), as characters
LowerSplitTable == [s \in Strings |-> Split(LowerOf(s))]
LowerWords(s) == LowerSplitTable[s]

\* s.strip()
StripTable == [s \in Strings |-> Strip(Chars(s))]
StripOf(s) == Str(StripTable[s])

(***************************************************************************)
(* helpers/content_tracker.py: ContentTracker                              *)
(***************************************************************************)
CategoryNames ==
    {"price", "innovation", "adoption", "regulation", "security", "defi",
     "infrastructure", "social"}

CATEGORIES ==
    [c \in CategoryNames |->
        CASE c = "price" ->
               {<<"p", "r", "i", "c", "e">>, <<"s", "u", "r", "g", "e">>, <<"$">>, <<"r", "a", "l", "l", "y">>, <<"m", "a", "r", "k", "e", "t">>, <<"a", "t", "h">>,
                <<"h", "i", "g", "h">>, <<"l", "o", "w">>, <<"d", "u", "m", "p">>, <<"p", "u", "m", "p">>}
          [] c = "innovation" ->
               {<<"l", "a", "u", "n", "c", "h">>, <<"u", "p", "d", "a", "t", "e">>, <<"p", "r", "o", "t", "o", "c", "o", "l">>, <<"t", "e", "c", "h">>, <<"s", "c", "a", "l", "i", "n", "g">>,
                <<"d", "e", "v", "e", "l", "o", "p">>, <<"r", "e", "l", "e", "a", "s", "e">>}
          [] c = "adoption" ->
               {<<"a", "d", "o", "p", "t">>, <<"u", "s", "e", "r">>, <<"i", "n", "t", "e", "g", "r", "a", "t", "i", "o", "n">>, <<"p", "a", "r", "t", "n", "e", "r", "s", "h", "i", "p">>,
                <<"m", "a", "i", "n", "s", "t", "r", "e", "a", "m">>, <<"i", "n", "s", "t", "i", "t", "u", "t", "i", "o", "n", "a", "l">>}
          [] c = "regulation" ->
               {<<"r", "e", "g", "u", "l", "a", "t", "i", "o", "n">>, <<"l", "a", "w">>, <<"c", "o", "m", "p", "l", "i", "a", "n", "c", "e">>, <<"l", "e", "g", "a", "l">>,
                <<"l", "i", "c", "e", "n", "s", "e">>, <<"g", "o", "v", "e", "r", "n">>}
          [] c = "security" ->
               {<<"h", "a", "c", "k">>, <<"s", "c", "a", "m">>, <<"s", "e", "c", "u", "r", "i", "t", "y">>, <<"p", "r", "o", "t", "e", "c", "t">>, <<"r", "i", "s", "k">>,
                <<"v", "u", "l", "n", "e", "r", "a", "b", "i", "l", "i", "t", "y">>}
          [] c = "defi" ->
               {<<"d", "e", "f", "i">>, <<"y", "i", "e", "l", "d">>, <<"s", "t", "a", "k", "e">>, <<"l", "i", "q", "u", "i", "d", "i", "t", "y">>, <<"a", "m", "m">>,
                <<"s", "w", "a", "p">>}
          [] c = "infrastructure" ->
               {<<"l", "a", "y", "e", "r", "2">>, <<"s", "c", "a", "l", "i", "n", "g">>, <<"n", "e", "t", "w", "o", "r", "k">>, <<"c", "h", "a", "i", "n">>, <<"b", "r", "i", "d", "g", "e">>,
                <<"p", "r", "o", "t", "o", "c", "o", "l">>}
          [] c = "social" ->
               {<<"c", "o", "m", "m", "u", "n", "i", "t", "y">>, <<"g", "o", "v", "e", "r", "n", "a", "n", "c", "e">>, <<"d", "a", "o">>, <<"v", "o", "t", "e">>,
                <<"p", "r", "o", "p", "o", "s", "a", "l">>}]

\* freshness windows, in hours
ProcessedWindowHours == 48
CategoryWindowHours == 24
SimilarWindowHours == 48
\* similarity_threshold = 0.7 as a fraction
SimilarityThresholdNum == 7
SimilarityThresholdDen == 10

\* datetime.isoformat(): the date and the time of day, as <<day, hour>>
isoformat(t) == <<t \div 24, t % 24>>

\* datetime.fromisoformat()
fromisoformat(s) == s[1] * 24 + s[2]

\* a dict with no key
EmptyDict == [k \in {} |-> {}]

\* d[k] = v
DictPut(d, k, v) == [x \in (DOMAIN d) \cup {k} |-> IF x = k THEN v ELSE d[x]]

\* the tracking data of a tracker constructed with no archive file
EmptyTrackingData ==
    [article_hashes |-> EmptyDict, token_mentions |-> EmptyDict,
     generated_tweets |-> EmptyDict, topic_clusters |-> EmptyDict]

\* md5(content.lower()).hexdigest(): the digest is modelled by the
\* lower-cased content itself (equal digests iff equal lower-cased content)
generate_content_hash(content) == Str(LowerOf(content))

\* the hash of an article: of title + summary
article_hash(article) ==
    generate_content_hash(Concat(article.title, article.summary))

\* the window of the categories, 24 hours, used for the articles
is_article_processed_Day(tracking_data, article, t) ==
    LET content_hash == article_hash(article)
    IN  /\ content_hash \in DOMAIN tracking_data.article_hashes
        /\ t - fromisoformat(tracking_data.article_hashes[content_hash].timestamp)
             < CategoryWindowHours

is_article_processed(tracking_data, article, t) ==
    LET content_hash == article_hash(article)
    IN  /\ content_hash \in DOMAIN tracking_data.article_hashes
        /\ t - fromisoformat(tracking_data.article_hashes[content_hash].timestamp)
             < ProcessedWindowHours

\* the keywords looked up in the text as it is, not lower-cased
CategorizeTable_CaseSensitive ==
    [text \in Strings |->
        {category \in CategoryNames :
            \E keyword \in CATEGORIES[category] : Contains(keyword, Chars(text))}]

\* _categorize_content(text)
CategorizeTable ==
    [text \in Strings |->
        {category \in CategoryNames :
            \E keyword \in CATEGORIES[category] : Contains(keyword, LowerOf(text))}]
categorize_content(text) == CategorizeTable[text]

\* the window of the similarity check, 48 hours, used for the categories
get_fresh_categories_TwoDays(tracking_data, t) ==
    LET recent_cutoff == t - SimilarWindowHours
        used_categories ==
            UNION {categorize_content(tracking_data.generated_tweets[h].text) :
                     h \in {k \in DOMAIN tracking_data.generated_tweets :
                              fromisoformat(tracking_data.generated_tweets[k].timestamp)
                                > recent_cutoff}}
    IN  CategoryNames \ used_categories

\* the comparison with the cutoff turned around: the posts older than the
\* cutoff are the ones counted
get_fresh_categories_Older(tracking_data, t) ==
    LET recent_cutoff == t - CategoryWindowHours
        used_categories ==
            UNION {categorize_content(tracking_data.generated_tweets[h].text) :
                     h \in {k \in DOMAIN tracking_data.generated_tweets :
                              fromisoformat(tracking_data.generated_tweets[k].timestamp)
                                < recent_cutoff}}
    IN  CategoryNames \ used_categories

get_fresh_categories(tracking_data, t) ==
    LET recent_cutoff == t - CategoryWindowHours
        used_categories ==
            UNION {categorize_content(tracking_data.generated_tweets[h].text) :
                     h \in {k \in DOMAIN tracking_data.generated_tweets :
                              fromisoformat(tracking_data.generated_tweets[k].timestamp)
                                > recent_cutoff}}
    IN  CategoryNames \ used_categories

is_token_recently_mentioned(tracking_data, token, hours, t) ==
    /\ token \in DOMAIN tracking_data.token_mentions
    /\ t - fromisoformat(tracking_data.token_mentions[token].last_mention) < hours

\* set(text.lower().split())
token_set(text) == Range(LowerWords(text))

\* the comparison of the cutoff turned around: only the stored tweets older
\* than the cutoff are compared
similar_candidates_Older(tracking_data, t) ==
    {h \in DOMAIN tracking_data.generated_tweets :
        fromisoformat(tracking_data.generated_tweets[h].timestamp)
            < t - SimilarWindowHours}

\* the window of the categories, 24 hours, used for the similarity check
similar_candidates_Day(tracking_data, t) ==
    {h \in DOMAIN tracking_data.generated_tweets :
        ~(fromisoformat(tracking_data.generated_tweets[h].timestamp)
            < t - CategoryWindowHours)}

\* the stored tweets is_tweet_similar compares with: those not older than
\* the cutoff
similar_candidates(tracking_data, t) ==
    {h \in DOMAIN tracking_data.generated_tweets :
        ~(fromisoformat(tracking_data.generated_tweets[h].timestamp)
            < t - SimilarWindowHours)}

\* is_tweet_similar raises ZeroDivisionError: the union of the two token sets
\* is empty.  (A candidate with no token is similar to nothing, and one with
\* a token never has an empty union, so the order in which the stored tweets
\* are visited does not change the outcome.)
is_tweet_similar_raises(tracking_data, tweet_text, t) ==
    \E h \in similar_candidates(tracking_data, t) :
        token_set(tweet_text)
          \cup token_set(tracking_data.generated_tweets[h].text) = {}

\* the threshold taken as a percentage, 70 instead of 0.7
is_tweet_similar_Percent(tracking_data, tweet_text, t) ==
    LET tweet_tokens == token_set(tweet_text)
    IN  \E h \in similar_candidates(tracking_data, t) :
          LET stored_tokens == token_set(tracking_data.generated_tweets[h].text)
          IN  /\ tweet_tokens \cup stored_tokens # {}
              /\ Cardinality(tweet_tokens \cap stored_tokens)
                   > 70 * Cardinality(tweet_tokens \cup stored_tokens)

is_tweet_similar(tracking_data, tweet_text, t) ==
    LET tweet_tokens == token_set(tweet_text)
    IN  \E h \in similar_candidates(tracking_data, t) :
          LET stored_tokens == token_set(tracking_data.generated_tweets[h].text)
          IN  /\ tweet_tokens \cup stored_tokens # {}
              /\ Cardinality(tweet_tokens \cap stored_tokens) * SimilarityThresholdDen
                   > SimilarityThresholdNum * Cardinality(tweet_tokens \cup stored_tokens)

\* a record that is written once: tracking the article again keeps it
track_article_FirstSeen(tracking_data, article, t) ==
    IF article_hash(article) \in DOMAIN tracking_data.article_hashes
    THEN tracking_data
    ELSE [tracking_data EXCEPT !.article_hashes =
            DictPut(@, article_hash(article),
                    [title |-> article.title, url |-> article.link,
                     summary |-> article.summary, timestamp |-> isoformat(t)])]

track_article(tracking_data, article, t) ==
    [tracking_data EXCEPT !.article_hashes =
        DictPut(@, article_hash(article),
                [title |-> article.title, url |-> article.link,
                 summary |-> article.summary, timestamp |-> isoformat(t)])]

\* a record that keeps the time of the first mention and only counts
track_token_mention_KeepsFirst(tracking_data, token, t) ==
    [tracking_data EXCEPT !.token_mentions =
        DictPut(@, token,
                [last_mention |->
                    IF token \in DOMAIN @ THEN @[token].last_mention
                    ELSE isoformat(t),
                 mention_count |->
                    (IF token \in DOMAIN @ THEN @[token].mention_count ELSE 0) + 1])]

track_token_mention(tracking_data, token, t) ==
    [tracking_data EXCEPT !.token_mentions =
        DictPut(@, token,
                [last_mention |-> isoformat(t),
                 mention_count |->
                    (IF token \in DOMAIN @ THEN @[token].mention_count ELSE 0) + 1])]

\* one mapping for every hash: the record of the post is stored with the
\* records of the articles
track_generated_tweet_OneNamespace(tracking_data, tweet_text, source_articles, t) ==
    [tracking_data EXCEPT !.article_hashes =
        DictPut(@, generate_content_hash(tweet_text),
                [text |-> tweet_text, timestamp |-> isoformat(t),
                 sources |-> [i \in 1..Len(source_articles) |->
                                [title |-> source_articles[i].title,
                                 url |-> source_articles[i].link,
                                 summary |-> source_articles[i].summary]]])]

track_generated_tweet(tracking_data, tweet_text, source_articles, t) ==
    [tracking_data EXCEPT !.generated_tweets =
        DictPut(@, generate_content_hash(tweet_text),
                [text |-> tweet_text, timestamp |-> isoformat(t),
                 sources |-> [i \in 1..Len(source_articles) |->
                                [title |-> source_articles[i].title,
                                 url |-> source_articles[i].link,
                                 summary |-> source_articles[i].summary]]])]

(***************************************************************************)
(* Inputs of the model: what the collaborators can hand to the pipeline    *)
(***************************************************************************)
\* the items of the summaries archive (article_summaries.json)
SummaryItems ==
    << [title |-> "ETH staking yield", link |-> "u1", summary |-> "stake rewards"],
       [title |-> "Layer2 network launch", link |-> "u2", summary |-> "scaling"],
       [title |-> "Exchange hack", link |-> "u3", summary |-> "security risk"],
       [title |-> "Bitcoin adoption", link |-> "u4", summary |-> "users"],
       [title |-> "DAO vote", link |-> "u5", summary |-> "community yield"],
       [title |-> "New license law", link |-> "u6", summary |-> "legal"] >>

\* what gecko_terminal_api.get_trending_pools() can return
TrendingPoolInputs ==
    { <<>>,
      << [name |-> "WETH / USDC", base_token |-> "WETH", quote_token |-> "USDC"] >> }

\* what twitter_api.fetch_recent_tweets() can return
SocialInputs ==
    { <<>>,
      << [text |-> "DeFi yield is back", username |-> "cdixon",
          likes |-> 10, retweets |-> 2] >> }

\* what message.content[0].text can be
Responses ==
    { "I have no post today",
      "REASONING: nothing new\nTWEET: ",
      "REASONING: nothing new\nTWEET:  ",
      "REASONING: overview\nTWEET: Bitcoin ETH market: launch, users, law, hack, yield, network, DAO",
      "REASONING: adoption\nTWEET: BITCOIN adoption grows",
      "REASONING: rollups\nTWEET: Networks scale the Rollups network",
      "REASONING: rollups\nTWEET: network scale the Rollups" }

\* the orders in which Python may iterate over a set of category names
SetOrders ==
    { <<"price", "innovation", "adoption", "regulation", "security", "defi",
        "infrastructure", "social">>,
      <<"social", "infrastructure", "defi", "security", "regulation",
        "adoption", "innovation", "price">>,
      <<"regulation", "security", "defi", "price", "innovation", "adoption",
        "infrastructure", "social">> }

\* what post_tweet can do: the tweet is not created (returns False); it is
\* created and confirmed (returns True); it is created but the get_me call
\* that follows fails (returns False)
PostOutcomes == {"not_posted", "posted", "posted_unconfirmed"}

\* post_tweet reporting success whatever happened
post_tweet_AlwaysTrue(outcome) == TRUE

\* what post_tweet returns to the pipeline
post_tweet(outcome) == outcome = "posted"

\* the hours the clock advances in one step
TickSteps == {24}

MaxTime == 48
MaxRuns == 2

(***************************************************************************)
(* agents/agent.py: generate_tweet                                         *)
(***************************************************************************)
max_retries == 3
\* previous_tweets[-5:], articles[:5], engaged_tweets[:5] and
\* filtered_pools[:5]
LastTweets == 5
TopArticles == 5
TopEngaged == 5
TopPools == 5

\* sorted(seq, key=..., reverse=True), the keys given as a sequence parallel
\* to seq: descending by key, elements of equal key in their original order
SortedDesc(seq, keys) ==
    LET n == Len(seq)
        Before(i, j) == keys[i] > keys[j] \/ (keys[i] = keys[j] /\ i < j)
        Rank(i) == 1 + Cardinality({j \in 1..n : Before(j, i)})
    IN  [r \in 1..n |-> seq[CHOOSE i \in 1..n : Rank(i) = r]]

\* social_themes: for each category, the number of the top engaged tweets
\* whose lower-cased text holds one of its keywords, which is the test of
\* _categorize_content (0: the dict has no such key)
SocialThemes(tweets) ==
    LET engaged_tweets ==
            SortedDesc(tweets, [i \in 1..Len(tweets) |->
                                  tweets[i].likes + tweets[i].retweets])
        top == FirstN(engaged_tweets, TopEngaged)
    IN  [category \in CategoryNames |->
           Cardinality({i \in 1..Len(top) :
                          category \in categorize_content(top[i].text)})]

\* the external usage as a filter: only the categories in external use stay
FreshCategories_TrendingOnly(tracking_data, themes, order, t) ==
    LET fresh == get_fresh_categories(tracking_data, t)
        listed == SelectSeq(order, LAMBDA c : c \in fresh)
    IN  IF \E c \in CategoryNames : themes[c] > 0
        THEN SelectSeq(SortedDesc(listed, [i \in 1..Len(listed) |-> themes[listed[i]]]),
                       LAMBDA c : themes[c] > 0)
        ELSE listed

\* fresh_categories: list(get_fresh_categories()) in the set's order, then
\* the stable sort by external usage when social_themes is not empty
FreshCategories(tracking_data, themes, order, t) ==
    LET fresh == get_fresh_categories(tracking_data, t)
        listed == SelectSeq(order, LAMBDA c : c \in fresh)
    IN  IF \E c \in CategoryNames : themes[c] > 0
        THEN SortedDesc(listed, [i \in 1..Len(listed) |-> themes[listed[i]]])
        ELSE listed

TokenList == <<"Bitcoin", "BTC", "ETH", "Ethereum", "SOL", "Solana">>
PriceWords == {<<"p", "r", "i", "c", "e">>, <<"$">>, <<"a", "t", "h">>, <<"h", "i", "g", "h">>, <<"l", "o", "w">>}

\* the tokens of TokenList a text mentions: token.lower() in text.lower()
MentionTable ==
    [text \in Strings |->
        {token \in Range(TokenList) : Contains(LowerOf(token), LowerOf(text))}]
MentionedTokens(text) == MentionTable[text]

\* the tokens of every archived post, not of the last five only
RecentTokens_WholeArchive(tweets) ==
    UNION {MentionedTokens(tweets[i].tweet) : i \in DOMAIN tweets}

\* recent_patterns['tokens']
RecentTokens(tweets) ==
    UNION {MentionedTokens(LastN(tweets, LastTweets)[i].tweet) :
             i \in DOMAIN LastN(tweets, LastTweets)}

\* tweet['tweet'].split()[0] raises IndexError: a recent tweet has no word
RecentPatternsRaise(tweets) ==
    \E i \in DOMAIN LastN(tweets, LastTweets) :
        Words(LastN(tweets, LastTweets)[i].tweet) = <<>>

\* recent_patterns['phrases']: the lower-cased first word of each recent tweet
RecentPhrases(tweets) ==
    {Lower(Words(LastN(tweets, LastTweets)[i].tweet)[1]) :
        i \in DOMAIN LastN(tweets, LastTweets)}

\* recent_patterns['themes']
RecentThemes(tweets) ==
    IF \E i \in DOMAIN LastN(tweets, LastTweets) : \E w \in PriceWords :
          Contains(w, LowerOf(LastN(tweets, LastTweets)[i].tweet))
    THEN {"price"} ELSE {}

\* available_categories without the test of tried_categories
AvailableCategories_Untested(fresh, tried) == fresh

\* available_categories: the fresh categories not tried yet, in order
AvailableCategories(fresh, tried) == SelectSeq(fresh, LAMBDA cat : cat \notin tried)

\* the filter without the test of the recent tokens
FilterArticles_AnyTitle(arts, category, tokens) ==
    SelectSeq(arts, LAMBDA article :
        category \in categorize_content(
            Concat3(article.title, " ", article.summary)))

\* the articles kept for a category: those classified into it whose title
\* mentions no recent token
FilterArticles(arts, category, tokens) ==
    SelectSeq(arts, LAMBDA article :
        /\ category \in categorize_content(
               Concat3(article.title, " ", article.summary))
        /\ ~\E token \in tokens : token \in MentionedTokens(article.title))

\* line.replace(prefix, '') of the last line of the response that starts
\* with the prefix, "" when no line does
ParseLine(resp, prefix) ==
    LET lines == SplitOn(Chars(resp), "\n")
        hits == {i \in 1..Len(lines) : StartsWith(lines[i], Chars(prefix))}
    IN  IF hits = {} THEN ""
        ELSE Str(Remove(lines[CHOOSE i \in hits : \A j \in hits : j <= i],
                        Chars(prefix)))

ReasoningPrefix == "REASONING: "
TweetPrefix == "TWEET: "

\* reasoning and tweet_text of each response
ParseTable ==
    [resp \in Responses |->
        [reasoning |-> ParseLine(resp, ReasoningPrefix),
         tweet_text |-> ParseLine(resp, TweetPrefix)]]

\* the loop without `if tweet_text:`
Usable_Always(text) == TRUE

\* `if tweet_text:` a text was extracted
Usable(text) == text # ""

\* tweet_text.lower().split()[0] raises IndexError (caught by the loop's
\* except): evaluated only when there is a recent phrase to compare with
FirstWordRaises(text, phrases) ==
    phrases # {} /\ LowerWords(text) = <<>>

\* the comparison without .lower() on the draft
UsesRecentPhrase_CaseSensitive(text, phrases) ==
    \E phrase \in phrases : Contains(phrase, Words(text)[1])

\* any(phrase in tweet_text.lower().split()[0] for phrase in phrases)
UsesRecentPhrase(text, phrases) ==
    \E phrase \in phrases : Contains(phrase, LowerWords(text)[1])

\* any(token.lower() in tweet_text.lower() for token in tokens)
MentionsRecentToken(text, tokens) ==
    \E token \in tokens : token \in MentionedTokens(text)

(***************************************************************************)
(* State                                                                   *)
(***************************************************************************)
VARIABLES
    now,                \* the wall clock, in hours
    tracking_file,      \* content_tracking.json
    tweets_archive,     \* generated_tweets.json: its 'tweets' list
    summaries_archive,  \* article_summaries.json
    twitter,            \* the tweets created on the platform, in order
    runs,               \* pipeline runs started so far
    pc,                 \* where the pipeline run is
    \* generate_and_post_tweet
    content_tracker,    \* the tracking_data of the run's ContentTracker
    available_articles,
    filtered_pools,
    result,             \* what generate_tweet returned: <<>> for None
    tweet_data,         \* the archive entry being prepared: <<>> before it is
    \* generate_tweet
    previous_tweets,
    social_themes,
    fresh_categories,
    tried_categories,
    attempt,
    focus_category,
    filtered_articles,
    response,           \* message.content[0].text of the last generation
    gen_calls,          \* calls of client.messages.create in this run
    \* _save_tracking_data
    save_error,         \* the last save of the tracking data logged an error
    \* the event loop
    waiting_run,        \* the other task of generate_and_post_tweet: where it
                        \* waits, and its locals
    \* helpers/tweets_cache.py
    tweet_cache,        \* TweetCache.cache: the cached tweets of each user
    cache_file,         \* tweets_cache.json, as _save_cache writes it
    \* helpers/twitter_helpers.py
    post_call,          \* post_tweet under way: the request it is at, the
                        \* outcomes of that request's calls so far, and how
                        \* its requests ended
    \* fetch_and_generate_summaries
    summary_task,       \* the running task: where it is, and its locals
    waiting_summary_task,   \* the other task, waiting on the event loop
    summary_runs        \* the number of calls so far

vars ==
    <<now, tracking_file, tweets_archive, summaries_archive, twitter, runs, pc,
      content_tracker, available_articles, filtered_pools, result, tweet_data,
      previous_tweets, social_themes, fresh_categories, tried_categories,
      attempt, focus_category, filtered_articles, response, gen_calls,
      save_error, waiting_run, tweet_cache, cache_file, post_call,
      summary_task, waiting_summary_task, summary_runs>>

persisted == <<tracking_file, tweets_archive, summaries_archive>>

\* the rest of the service, which the pipeline leaves alone
service_state ==
    <<tweet_cache, cache_file, post_call, summary_task, waiting_summary_task,
      summary_runs>>

\* the tasks of fetch_and_generate_summaries
summaries_state == <<summary_task, waiting_summary_task, summary_runs>>

main_locals == <<content_tracker, available_articles, filtered_pools, result, tweet_data>>

loop_locals ==
    <<previous_tweets, social_themes, fresh_categories, tried_categories,
      attempt, focus_category, filtered_articles, response, gen_calls>>

\* the articles argument of generate_tweet: available_articles[:5]
articles == FirstN(available_articles, TopArticles)

\* reasoning and tweet_text as parsed from the last response ("" before one)
reasoning == IF response \in Responses THEN ParseTable[response].reasoning ELSE ""
tweet_text == IF response \in Responses THEN ParseTable[response].tweet_text ELSE ""

NoThemes == [c \in CategoryNames |-> 0]

\* no pipeline run is active: the locals of both functions do not exist
NoLocals ==
    /\ content_tracker = EmptyTrackingData
    /\ available_articles = <<>>
    /\ filtered_pools = <<>>
    /\ result = <<>>
    /\ tweet_data = <<>>
    /\ previous_tweets = <<>>
    /\ social_themes = NoThemes
    /\ fresh_categories = <<>>
    /\ tried_categories = {}
    /\ attempt = 0
    /\ focus_category = ""
    /\ filtered_articles = <<>>
    /\ response = ""
    /\ gen_calls = 0

\* no call of fetch_and_generate_summaries under way
NoSummaryTask ==
    [pc |-> "idle", summaries_archive |-> <<>>, unprocessed_news |-> <<>>,
     i |-> 0]

\* post_tweet before its first request
NoPostCall ==
    [step |-> "create_tweet", log |-> <<>>, response |-> "none", me |-> "none"]

\* the rest of the service after construction: no cache file
ServiceInit ==
    /\ tweet_cache = EmptyDict
    /\ cache_file = EmptyDict
    /\ post_call = NoPostCall
    /\ summary_task = NoSummaryTask
    /\ waiting_summary_task = NoSummaryTask
    /\ summary_runs = 0

\* a task that has not started or has returned: idle, no locals
NotStarted ==
    [pc |-> "idle", content_tracker |-> EmptyTrackingData,
     available_articles |-> <<>>, filtered_pools |-> <<>>, result |-> <<>>,
     tweet_data |-> <<>>, previous_tweets |-> <<>>, social_themes |-> NoThemes,
     fresh_categories |-> <<>>, tried_categories |-> {}, attempt |-> 0,
     focus_category |-> "", filtered_articles |-> <<>>, response |-> "",
     gen_calls |-> 0]

Init ==
    /\ now = 0
    /\ tracking_file = EmptyTrackingData
    /\ tweets_archive = <<>>
    /\ summaries_archive = [processed_urls |-> <<>>, items |-> SummaryItems]
    /\ twitter = <<>>
    /\ runs = 0
    /\ pc = "idle"
    /\ save_error = FALSE
    /\ NoLocals
    /\ waiting_run = NotStarted
    /\ ServiceInit

\* the run returns: back to idle, its locals gone
Return ==
    /\ pc' = "idle"
    /\ content_tracker' = EmptyTrackingData
    /\ available_articles' = <<>>
    /\ filtered_pools' = <<>>
    /\ result' = <<>>
    /\ tweet_data' = <<>>
    /\ previous_tweets' = <<>>
    /\ social_themes' = NoThemes
    /\ fresh_categories' = <<>>
    /\ tried_categories' = {}
    /\ attempt' = 0
    /\ focus_category' = ""
    /\ filtered_articles' = <<>>
    /\ response' = ""
    /\ gen_calls' = 0

(***************************************************************************)
(* main.py: generate_and_post_tweet, up to the call of generate_tweet      *)
(***************************************************************************)
\* a tracker that starts empty instead of loading its archive file
StartRun_EmptyTracker ==
    /\ pc = "idle"
    /\ runs < MaxRuns
    /\ runs' = runs + 1
    /\ LET loaded == EmptyTrackingData
           available == SelectSeq(summaries_archive.items,
                            LAMBDA article : ~is_article_processed(loaded, article, now))
       IN  IF available = <<>>
           THEN Return
           ELSE /\ pc' = "pools"
                /\ content_tracker' = loaded
                /\ available_articles' = available
                /\ UNCHANGED <<filtered_pools, result, tweet_data, loop_locals>>
    /\ UNCHANGED <<now, waiting_run, service_state, save_error, persisted,
                   twitter>>

\* lines 29-46: construct the tracker, load and filter the articles
StartRun ==
    /\ pc = "idle"
    /\ runs < MaxRuns
    /\ runs' = runs + 1
    /\ LET loaded == tracking_file
           available == SelectSeq(summaries_archive.items,
                            LAMBDA article : ~is_article_processed(loaded, article, now))
       IN  IF available = <<>>
           THEN Return
           ELSE /\ pc' = "pools"
                /\ content_tracker' = loaded
                /\ available_articles' = available
                /\ UNCHANGED <<filtered_pools, result, tweet_data, loop_locals>>
    /\ UNCHANGED <<now, waiting_run, service_state, save_error, persisted,
                   twitter>>

\* lines 49-62: the trending pools arrive and are filtered
PoolsReturn ==
    /\ pc = "pools"
    /\ \E trending_pools \in TrendingPoolInputs :
          filtered_pools' =
              SelectSeq(trending_pools, LAMBDA pool :
                  ~(\/ is_token_recently_mentioned(content_tracker, pool.base_token,
                                                   CategoryWindowHours, now)
                    \/ is_token_recently_mentioned(content_tracker, pool.quote_token,
                                                   CategoryWindowHours, now)))
    /\ pc' = "tweets"
    /\ UNCHANGED <<now, waiting_run, service_state, save_error, persisted,
                   twitter, runs,
                   content_tracker,
                   available_articles, result, tweet_data, loop_locals>>

(***************************************************************************)
(* agents/agent.py: generate_tweet                                         *)
(***************************************************************************)
\* main.py line 65 and agent.py lines 174-212: the social tweets arrive and
\* generate_tweet runs up to its loop
TweetsReturn ==
    /\ pc = "tweets"
    /\ \E tweets \in SocialInputs, order \in SetOrders :
          /\ social_themes' = SocialThemes(tweets)
          /\ fresh_categories' =
                FreshCategories(tracking_file, SocialThemes(tweets), order, now)
    /\ previous_tweets' = tweets_archive
    /\ tried_categories' = {}
    /\ attempt' = 0
    /\ gen_calls' = 0
    /\ pc' = "loop"
    /\ UNCHANGED <<now, waiting_run, service_state, save_error, persisted,
                   twitter, runs,
                   main_locals,
                   focus_category, filtered_articles, response>>

\* an empty filter that costs no iteration: the loop counts only the calls
\* of the generator
LoopIteration_FreeSkip ==
    /\ pc = "loop"
    /\ attempt < max_retries
    /\ IF RecentPatternsRaise(previous_tweets)
       THEN /\ pc' = "raised"
            /\ UNCHANGED <<tried_categories, focus_category, filtered_articles,
                           attempt, gen_calls, result>>
       ELSE LET available_categories ==
                    AvailableCategories(fresh_categories, tried_categories)
            IN  IF available_categories = <<>>
                THEN /\ pc' = "exhausted"
                     /\ result' = <<>>
                     /\ UNCHANGED <<tried_categories, focus_category,
                                    filtered_articles, attempt, gen_calls>>
                ELSE LET focus == available_categories[1]
                         filtered == FilterArticles(articles, focus,
                                                    RecentTokens(previous_tweets))
                     IN  /\ focus_category' = focus
                         /\ tried_categories' = tried_categories \cup {focus}
                         /\ filtered_articles' = filtered
                         /\ result' = <<>>
                         /\ IF filtered = <<>>
                            THEN /\ pc' = "loop"
                                 /\ UNCHANGED <<attempt, gen_calls>>
                            ELSE /\ pc' = "generating"
                                 /\ gen_calls' = gen_calls + 1
                                 /\ UNCHANGED attempt
    /\ response' = ""
    /\ UNCHANGED <<now, waiting_run, service_state, save_error, persisted,
                   twitter, runs,
                   content_tracker, available_articles, filtered_pools,
                   tweet_data, previous_tweets, social_themes, fresh_categories>>

\* lines 214-262 (and the call at 345): one pass of the loop up to the
\* generation call
LoopIteration ==
    /\ pc = "loop"
    /\ attempt < max_retries
    /\ IF RecentPatternsRaise(previous_tweets)
       THEN /\ pc' = "raised"
            /\ UNCHANGED <<tried_categories, focus_category, filtered_articles,
                           attempt, gen_calls, result>>
       ELSE LET available_categories ==
                    AvailableCategories(fresh_categories, tried_categories)
            IN  IF available_categories = <<>>
                THEN /\ pc' = "exhausted"
                     /\ result' = <<>>
                     /\ UNCHANGED <<tried_categories, focus_category,
                                    filtered_articles, attempt, gen_calls>>
                ELSE LET focus == available_categories[1]
                         filtered == FilterArticles(articles, focus,
                                                    RecentTokens(previous_tweets))
                     IN  /\ focus_category' = focus
                         /\ tried_categories' = tried_categories \cup {focus}
                         /\ filtered_articles' = filtered
                         /\ result' = <<>>
                         /\ IF filtered = <<>>
                            THEN /\ attempt' = attempt + 1
                                 /\ pc' = "loop"
                                 /\ UNCHANGED gen_calls
                            ELSE /\ pc' = "generating"
                                 /\ gen_calls' = gen_calls + 1
                                 /\ UNCHANGED attempt
    /\ response' = ""
    /\ UNCHANGED <<now, waiting_run, service_state, save_error, persisted,
                   twitter, runs,
                   content_tracker,
                   available_articles, filtered_pools, tweet_data,
                   previous_tweets, social_themes, fresh_categories>>

\* a rejected draft gives its category back: the category can be tried again
GenerationReturns_CategoryBack ==
    /\ pc = "generating"
    /\ \E resp \in Responses :
          /\ response' = resp
          /\ LET text == ParseTable[resp].tweet_text
                 phrases == RecentPhrases(previous_tweets)
                 tokens == RecentTokens(previous_tweets)
             IN  IF /\ Usable(text)
                    /\ ~FirstWordRaises(text, phrases)
                    /\ ~UsesRecentPhrase(text, phrases)
                    /\ ~MentionsRecentToken(text, tokens)
                 THEN /\ result' = <<StripOf(text),
                                     StripOf(ParseTable[resp].reasoning)>>
                      /\ pc' = "accepted"
                      /\ UNCHANGED <<attempt, tried_categories>>
                 ELSE /\ result' = <<>>
                      /\ pc' = "loop"
                      /\ attempt' = attempt + 1
                      /\ tried_categories' = tried_categories \ {focus_category}
    /\ UNCHANGED <<now, waiting_run, service_state, save_error, persisted,
                   twitter, runs,
                   content_tracker, available_articles, filtered_pools,
                   tweet_data, previous_tweets, social_themes, fresh_categories,
                   focus_category, filtered_articles, gen_calls>>

\* lines 354-375: the response is parsed and validated
GenerationReturns ==
    /\ pc = "generating"
    /\ \E resp \in Responses :
          /\ response' = resp
          /\ LET text == ParseTable[resp].tweet_text
                 phrases == RecentPhrases(previous_tweets)
                 tokens == RecentTokens(previous_tweets)
             IN  IF /\ Usable(text)
                    /\ ~FirstWordRaises(text, phrases)
                    /\ ~UsesRecentPhrase(text, phrases)
                    /\ ~MentionsRecentToken(text, tokens)
                 THEN /\ result' = <<StripOf(text),
                                     StripOf(ParseTable[resp].reasoning)>>
                      /\ pc' = "accepted"
                      /\ UNCHANGED attempt
                 ELSE /\ result' = <<>>
                      /\ pc' = "loop"
                      /\ attempt' = attempt + 1
    /\ UNCHANGED <<now, waiting_run, service_state, save_error, persisted,
                   twitter, runs,
                   content_tracker,
                   available_articles, filtered_pools, tweet_data,
                   previous_tweets, social_themes, fresh_categories,
                   tried_categories, focus_category, filtered_articles, gen_calls>>

\* the loop without its except clause: the exception leaves generate_tweet
GenerationFails_Propagates ==
    /\ pc = "generating"
    /\ pc' = "raised"
    /\ UNCHANGED <<now, waiting_run, service_state, save_error, persisted,
                   twitter, runs,
                   main_locals,
                   previous_tweets, social_themes, fresh_categories,
                   tried_categories, focus_category, filtered_articles,
                   response, gen_calls, attempt>>

\* lines 377-380: the generation call raises
GenerationFails ==
    /\ pc = "generating"
    /\ pc' = "loop"
    /\ attempt' = attempt + 1
    /\ UNCHANGED <<now, waiting_run, service_state, save_error, persisted,
                   twitter, runs,
                   main_locals,
                   previous_tweets, social_themes, fresh_categories,
                   tried_categories, focus_category, filtered_articles,
                   response, gen_calls>>

\* lines 382-383: the loop ran max_retries times
LoopExhausted ==
    /\ pc = "loop"
    /\ attempt = max_retries
    /\ pc' = "exhausted"
    /\ result' = <<>>
    /\ UNCHANGED <<now, waiting_run, service_state, save_error, persisted,
                   twitter, runs,
                   content_tracker,
                   available_articles, filtered_pools, tweet_data, loop_locals>>

(***************************************************************************)
(* main.py: generate_and_post_tweet, after generate_tweet                  *)
(***************************************************************************)
\* a pipeline that archives a run without result as an empty entry
ReturnNoResult_Archived ==
    /\ pc = "exhausted"
    /\ tweets_archive' =
          Append(tweets_archive,
                 [timestamp |-> isoformat(now), tweet |-> "", reasoning |-> "",
                  posted_to_twitter |-> FALSE])
    /\ Return
    /\ UNCHANGED <<now, waiting_run, service_state, save_error, tracking_file,
                   summaries_archive, twitter, runs>>

\* lines 77-79: no result
ReturnNoResult ==
    /\ pc = "exhausted"
    /\ Return
    /\ UNCHANGED <<now, waiting_run, service_state, save_error, persisted,
                   twitter, runs>>

\* lines 152-156: an exception of generate_tweet reaches the pipeline's handler
HandleException ==
    /\ pc = "raised"
    /\ Return
    /\ UNCHANGED <<now, waiting_run, service_state, save_error, persisted,
                   twitter, runs>>

\* a pipeline that archives the draft it skips as too similar
CheckSimilar_ArchivesSkipped ==
    /\ pc = "accepted"
    /\ IF \/ is_tweet_similar_raises(content_tracker, result[1], now)
          \/ is_tweet_similar(content_tracker, result[1], now)
       THEN /\ Return
            /\ tweets_archive' =
                  Append(tweets_archive,
                         [timestamp |-> isoformat(now), tweet |-> result[1],
                          reasoning |-> result[2], posted_to_twitter |-> FALSE])
       ELSE /\ pc' = "posting"
            /\ tweet_data' = [timestamp |-> isoformat(now), tweet |-> result[1],
                              reasoning |-> result[2], posted_to_twitter |-> FALSE]
            /\ UNCHANGED <<content_tracker, available_articles, filtered_pools,
                           result, loop_locals, tweets_archive>>
    /\ UNCHANGED <<now, waiting_run, service_state, save_error, tracking_file,
                   summaries_archive, twitter, runs>>

\* lines 81-121: the similarity check and the archive entry
CheckSimilar ==
    /\ pc = "accepted"
    /\ IF \/ is_tweet_similar_raises(content_tracker, result[1], now)
          \/ is_tweet_similar(content_tracker, result[1], now)
       THEN Return
       ELSE /\ pc' = "posting"
            /\ tweet_data' = [timestamp |-> isoformat(now), tweet |-> result[1],
                              reasoning |-> result[2], posted_to_twitter |-> FALSE]
            /\ UNCHANGED <<content_tracker, available_articles, filtered_pools,
                           result, loop_locals>>
    /\ UNCHANGED <<now, waiting_run, service_state, save_error, persisted,
                   twitter, runs>>

\* lines 133-140: the track calls of a published post, in order
TrackAll(tracking_data, arts, pools, text, t) ==
    LET TrackArticles[i \in 0..Len(arts)] ==
            IF i = 0 THEN tracking_data
            ELSE track_article(TrackArticles[i - 1], arts[i], t)
        TrackPools[i \in 0..Len(pools)] ==
            IF i = 0 THEN TrackArticles[Len(arts)]
            ELSE track_token_mention(
                     track_token_mention(TrackPools[i - 1], pools[i].base_token, t),
                     pools[i].quote_token, t)
    IN  track_generated_tweet(TrackPools[Len(pools)], text, arts, t)

\* post_tweet has returned with the given outcome: lines 128-156 of
\* generate_and_post_tweet
PostReturnsWith(outcome) ==
    /\ pc = "posting"
    /\ LET success == post_tweet(outcome)
       IN  /\ twitter' = IF outcome = "not_posted" THEN twitter
                         ELSE Append(twitter, result[1])
           /\ tracking_file' =
                 IF success
                 THEN TrackAll(content_tracker, articles,
                               FirstN(filtered_pools, TopPools), result[1], now)
                 ELSE tracking_file
           /\ save_error' = IF success THEN FALSE ELSE save_error
           /\ tweets_archive' =
                 Append(tweets_archive,
                        [tweet_data EXCEPT !.posted_to_twitter = success])
    /\ Return
    /\ UNCHANGED <<now, waiting_run, summaries_archive, runs>>

\* track calls on a tracker that loads the file again before it tracks
PostReturns_LoadsAgain ==
    /\ pc = "posting"
    /\ \E outcome \in PostOutcomes :
          LET success == post_tweet(outcome)
          IN  /\ twitter' = IF outcome = "not_posted" THEN twitter
                            ELSE Append(twitter, result[1])
              /\ tracking_file' =
                    IF success
                    THEN TrackAll(tracking_file, articles,
                                  FirstN(filtered_pools, TopPools), result[1], now)
                    ELSE tracking_file
              /\ save_error' = IF success THEN FALSE ELSE save_error
              /\ tweets_archive' =
                    Append(tweets_archive,
                           [tweet_data EXCEPT !.posted_to_twitter = success])
    /\ Return
    /\ UNCHANGED <<now, waiting_run, service_state, summaries_archive, runs>>

\* lines 125-150: post_tweet returns; track what was published; archive
PostReturns ==
    /\ \E outcome \in PostOutcomes : PostReturnsWith(outcome)
    /\ UNCHANGED service_state

\* time passes: between runs and while a run waits for post_tweet
Tick ==
    /\ pc \in {"idle", "posting"}
    /\ \E d \in TickSteps :
          /\ now + d <= MaxTime
          /\ now' = now + d
    /\ UNCHANGED <<save_error, waiting_run, service_state, persisted, twitter,
                   runs, pc,
                   main_locals,
                   loop_locals>>

Next ==
    \/ StartRun
    \/ PoolsReturn
    \/ TweetsReturn
    \/ LoopIteration
    \/ GenerationReturns
    \/ GenerationFails
    \/ LoopExhausted
    \/ ReturnNoResult
    \/ HandleException
    \/ CheckSimilar
    \/ PostReturns
    \/ Tick

Spec == Init /\ [][Next]_vars

(***************************************************************************)
(* helpers/content_tracker.py: a ContentTracker called directly.  The      *)
(* object's tracking_data is content_tracker, its archive file is          *)
(* tracking_file; no pipeline run is active, and pc names the call that    *)
(* returned last.                                                          *)
(***************************************************************************)
\* category_counts[cat] >= 2
OverusedCount == 2
\* timedelta(days=days), in hours
HoursPerDay == 24

\* the count compared with > 2 instead of >= 2
is_topic_overused_MoreThanTwice(tracking_data, article, t) ==
    LET article_categories ==
            categorize_content(Concat3(article.title, " ", article.summary))
        recent_cutoff == t - CategoryWindowHours
        recent ==
            {h \in DOMAIN tracking_data.generated_tweets :
                fromisoformat(tracking_data.generated_tweets[h].timestamp)
                  > recent_cutoff}
        category_counts ==
            [cat \in CategoryNames |->
                Cardinality({h \in recent :
                    cat \in categorize_content(
                                tracking_data.generated_tweets[h].text)})]
    IN  \E cat \in article_categories : category_counts[cat] > OverusedCount

is_topic_overused(tracking_data, article, t) ==
    LET article_categories ==
            categorize_content(Concat3(article.title, " ", article.summary))
        recent_cutoff == t - CategoryWindowHours
        recent ==
            {h \in DOMAIN tracking_data.generated_tweets :
                fromisoformat(tracking_data.generated_tweets[h].timestamp)
                  > recent_cutoff}
        category_counts ==
            [cat \in CategoryNames |->
                Cardinality({h \in recent :
                    cat \in categorize_content(
                                tracking_data.generated_tweets[h].text)})]
    IN  \E cat \in article_categories : category_counts[cat] >= OverusedCount

\* the dict comprehension of cleanup_old_data: the entries of d whose time
\* field is after the cutoff
KeptEntries(d, field, cutoff) ==
    [k \in {x \in DOMAIN d : fromisoformat(d[x][field]) > cutoff} |-> d[k]]

\* a cleanup that leaves the generated tweets alone
cleanup_old_data_SkipsTweets(tracking_data, days, t) ==
    LET cutoff == t - days * HoursPerDay
    IN  [tracking_data EXCEPT
            !.article_hashes = KeptEntries(@, "timestamp", cutoff),
            !.token_mentions = KeptEntries(@, "last_mention", cutoff)]

\* the tracking data after cleanup_old_data(days)
cleanup_old_data(tracking_data, days, t) ==
    LET cutoff == t - days * HoursPerDay
    IN  [tracking_data EXCEPT
            !.article_hashes = KeptEntries(@, "timestamp", cutoff),
            !.token_mentions = KeptEntries(@, "last_mention", cutoff),
            !.generated_tweets = KeptEntries(@, "timestamp", cutoff)]

\* the article, the token and the tweet texts the tracker is called with (the
\* last text is title + summary of the article: the two have the same hash)
TrackerArticles == {SummaryItems[1]}
TrackerTokens == {"WETH"}
TrackerTweets ==
    { "",
      "Bitcoin ETH market: launch, users, law, hack, yield, network, DAO",
      "the market pumped hard today",
      "layer2 adoption keeps growing",
      "ETH staking yieldstake rewards" }
\* the days argument of cleanup_old_data (default 7)
CleanupDays == {1, 2, 7}

\* the hours the clock advances between two calls
TrackerTickSteps == {24}
TrackerMaxTime == 72
\* the tweets the tracker stores at most and the mentions it counts at most
MaxStoredTweets == 2
MaxMentions == 2

\* what the calls below leave alone: the pipeline
tracker_frame ==
    <<tweets_archive, summaries_archive, twitter, runs, available_articles,
      filtered_pools, result, tweet_data, loop_locals>>

\* track_article(article), lines 119-128, the save included
TrackArticle ==
    /\ \E article \in TrackerArticles :
          content_tracker' = track_article(content_tracker, article, now)
    /\ pc' = "track_article"
    /\ tracking_file' = content_tracker'
    /\ save_error' = FALSE
    /\ UNCHANGED <<now, waiting_run, service_state, tracker_frame>>

\* track_token_mention(token), lines 130-136, the save included
TrackTokenMention ==
    /\ \E token \in TrackerTokens :
          /\ token \in DOMAIN content_tracker.token_mentions
                => content_tracker.token_mentions[token].mention_count < MaxMentions
          /\ content_tracker' = track_token_mention(content_tracker, token, now)
    /\ pc' = "track_token_mention"
    /\ tracking_file' = content_tracker'
    /\ save_error' = FALSE
    /\ UNCHANGED <<now, waiting_run, service_state, tracker_frame>>

\* a tracker that batches: this call leaves the file as it is
TrackGeneratedTweet_Batched ==
    /\ \E text \in TrackerTweets, source_articles \in {<<SummaryItems[1]>>} :
          /\ \/ generate_content_hash(text) \in DOMAIN content_tracker.generated_tweets
             \/ Cardinality(DOMAIN content_tracker.generated_tweets) < MaxStoredTweets
          /\ content_tracker' =
                track_generated_tweet(content_tracker, text, source_articles, now)
    /\ pc' = "track_generated_tweet"
    /\ save_error' = FALSE
    /\ UNCHANGED <<now, waiting_run, service_state, tracking_file,
                   tracker_frame>>

\* track_generated_tweet(tweet_text, source_articles), lines 138-150, the
\* save included
TrackGeneratedTweet ==
    /\ \E text \in TrackerTweets, source_articles \in {<<SummaryItems[1]>>} :
          /\ \/ generate_content_hash(text) \in DOMAIN content_tracker.generated_tweets
             \/ Cardinality(DOMAIN content_tracker.generated_tweets) < MaxStoredTweets
          /\ content_tracker' =
                track_generated_tweet(content_tracker, text, source_articles, now)
    /\ pc' = "track_generated_tweet"
    /\ tracking_file' = content_tracker'
    /\ save_error' = FALSE
    /\ UNCHANGED <<now, waiting_run, service_state, tracker_frame>>

\* cleanup_old_data(days), lines 160-180, the save included
CleanupOldData ==
    /\ \E days \in CleanupDays :
          content_tracker' = cleanup_old_data(content_tracker, days, now)
    /\ pc' = "cleanup_old_data"
    /\ tracking_file' = content_tracker'
    /\ save_error' = FALSE
    /\ UNCHANGED <<now, waiting_run, service_state, tracker_frame>>

\* time passes between two calls
TrackerTick ==
    /\ \E d \in TrackerTickSteps :
          /\ now + d <= TrackerMaxTime
          /\ now' = now + d
    /\ UNCHANGED <<save_error, waiting_run, service_state, pc, content_tracker,
                   tracking_file, tracker_frame>>

TrackerNext ==
    \/ TrackArticle
    \/ TrackTokenMention
    \/ TrackGeneratedTweet
    \/ CleanupOldData
    \/ TrackerTick

TrackerSpec == Init /\ [][TrackerNext]_vars

(***************************************************************************)
(* helpers/content_tracker.py: _save_tracking_data when save_archive       *)
(* raises.  The exception is logged and swallowed and the call that saved  *)
(* returns as it does after a successful save.  The model follows a save   *)
(* that fails after one that succeeded: no two failures in a row.          *)
(***************************************************************************)
\* how save_archive can fail: open() raises and the file is left as it was;
\* or open() has emptied the file and the write raises, which leaves a file
\* that load_archive reads as {}
SaveFailures == {"not_opened", "truncated"}

\* what a tracker constructed after a failed save loads
FailedSave(file, failure) ==
    IF failure = "not_opened" THEN file ELSE EmptyTrackingData

\* track_article(article) with a failing save: the record is dropped again
TrackArticleSaveFails_Rollback ==
    /\ ~save_error
    /\ \E failure \in SaveFailures :
          tracking_file' = FailedSave(tracking_file, failure)
    /\ save_error' = TRUE
    /\ pc' = "track_article"
    /\ UNCHANGED <<now, waiting_run, service_state, content_tracker,
                   tracker_frame>>

\* track_article(article), lines 119-128, the save of line 128 failing
TrackArticleSaveFails ==
    /\ ~save_error
    /\ \E article \in TrackerArticles :
          content_tracker' = track_article(content_tracker, article, now)
    /\ \E failure \in SaveFailures :
          tracking_file' = FailedSave(tracking_file, failure)
    /\ save_error' = TRUE
    /\ pc' = "track_article"
    /\ UNCHANGED <<now, waiting_run, service_state, tracker_frame>>

\* track_token_mention(token), lines 130-136, the save of line 136 failing
TrackTokenMentionSaveFails ==
    /\ ~save_error
    /\ \E token \in TrackerTokens :
          /\ token \in DOMAIN content_tracker.token_mentions
                => content_tracker.token_mentions[token].mention_count < MaxMentions
          /\ content_tracker' = track_token_mention(content_tracker, token, now)
    /\ \E failure \in SaveFailures :
          tracking_file' = FailedSave(tracking_file, failure)
    /\ save_error' = TRUE
    /\ pc' = "track_token_mention"
    /\ UNCHANGED <<now, waiting_run, service_state, tracker_frame>>

\* track_generated_tweet(tweet_text, source_articles), lines 138-150, the
\* save of line 150 failing
TrackGeneratedTweetSaveFails ==
    /\ ~save_error
    /\ \E text \in TrackerTweets, source_articles \in {<<SummaryItems[1]>>} :
          /\ \/ generate_content_hash(text) \in DOMAIN content_tracker.generated_tweets
             \/ Cardinality(DOMAIN content_tracker.generated_tweets) < MaxStoredTweets
          /\ content_tracker' =
                track_generated_tweet(content_tracker, text, source_articles, now)
    /\ \E failure \in SaveFailures :
          tracking_file' = FailedSave(tracking_file, failure)
    /\ save_error' = TRUE
    /\ pc' = "track_generated_tweet"
    /\ UNCHANGED <<now, waiting_run, service_state, tracker_frame>>

\* cleanup_old_data(days), lines 160-180, the save of line 180 failing
CleanupOldDataSaveFails ==
    /\ ~save_error
    /\ \E days \in CleanupDays :
          content_tracker' = cleanup_old_data(content_tracker, days, now)
    /\ \E failure \in SaveFailures :
          tracking_file' = FailedSave(tracking_file, failure)
    /\ save_error' = TRUE
    /\ pc' = "cleanup_old_data"
    /\ UNCHANGED <<now, waiting_run, service_state, tracker_frame>>

\* the hours a process on the failing disk is followed
FaultyMaxTime == 24

\* time passes between two calls
FaultyTick ==
    /\ \E d \in TrackerTickSteps :
          /\ now + d <= FaultyMaxTime
          /\ now' = now + d
    /\ UNCHANGED <<save_error, waiting_run, service_state, pc, content_tracker,
                   tracking_file, tracker_frame>>

FaultySaveNext ==
    \/ TrackArticle
    \/ TrackTokenMention
    \/ TrackGeneratedTweet
    \/ CleanupOldData
    \/ FaultyTick
    \/ TrackArticleSaveFails
    \/ TrackTokenMentionSaveFails
    \/ TrackGeneratedTweetSaveFails
    \/ CleanupOldDataSaveFails

\* the tracker on a disk that can fail
FaultySaveSpec == Init /\ [][FaultySaveNext]_vars

(***************************************************************************)
(* main.py: the track calls of a published post when save_archive raises   *)
(* in some of them                                                         *)
(***************************************************************************)
\* lines 133-140: the number of track calls of a published post
TrackCalls(arts, pools) == Len(arts) + 2 * Len(pools) + 1

\* lines 133-140: the tracking data after each of the track calls of a
\* published post, in order (index 0: before the first call)
TrackedAfter(tracking_data, arts, pools, text, t) ==
    LET calls == TrackCalls(arts, pools)
        After[i \in 0..calls] ==
            IF i = 0 THEN tracking_data
            ELSE IF i <= Len(arts) THEN track_article(After[i - 1], arts[i], t)
            ELSE IF i < calls
                 THEN LET j == i - Len(arts)
                          pool == pools[(j + 1) \div 2]
                      IN  track_token_mention(
                              After[i - 1],
                              IF j % 2 = 1 THEN pool.base_token ELSE pool.quote_token,
                              t)
            ELSE track_generated_tweet(After[i - 1], text, arts, t)
    IN  After

\* lines 125-150 when the post is published and the save of the last track
\* call fails: the file holds what the last successful save of the run wrote
\* (what it held before the run when none succeeded), or nothing readable
\* when a failed save after that one emptied the file.  The saves of the run
\* fail all, or all but the last succeed.  (A failed save that a later save
\* of the run makes up for leaves the file as PostReturns does.)
PostReturnsSaveFails ==
    /\ pc = "posting"
    /\ twitter' = Append(twitter, result[1])
    /\ LET after == TrackedAfter(content_tracker, articles,
                                 FirstN(filtered_pools, TopPools), result[1], now)
           calls == TrackCalls(articles, FirstN(filtered_pools, TopPools))
       IN  \E saved \in {0, calls - 1}, failure \in SaveFailures :
              /\ save_error' = TRUE
              /\ tracking_file' =
                    FailedSave(IF saved = 0 THEN tracking_file ELSE after[saved],
                               failure)
    /\ tweets_archive' =
          Append(tweets_archive, [tweet_data EXCEPT !.posted_to_twitter = TRUE])
    /\ Return
    /\ UNCHANGED <<now, waiting_run, service_state, summaries_archive, runs>>

FaultyPipelineNext ==
    \/ Next
    \/ PostReturnsSaveFails

\* the pipeline on a disk that can fail
FaultyPipelineSpec == Init /\ [][FaultyPipelineNext]_vars

(***************************************************************************)
(* main.py, lines 248-252: trigger_tweet adds generate_and_post_tweet as a *)
(* background task, so two tasks of it can be in flight on the event loop. *)
(* One task runs at a time; the loop changes to the other task where the   *)
(* running one waits (an await) or has returned.  The variables of the     *)
(* pipeline hold the task that runs, waiting_run the other one.            *)
(***************************************************************************)
\* where a task waits: the awaits of main.py, lines 49, 65 and 125, and of
\* agent.py, line 345
SuspensionPoints == {"pools", "tweets", "generating", "posting"}

\* the event loop resumes the other task
Switch ==
    /\ pc \in SuspensionPoints \cup {"idle"}
    /\ waiting_run.pc # "idle" \/ pc # "idle"
    /\ waiting_run' =
          [pc |-> pc, content_tracker |-> content_tracker,
           available_articles |-> available_articles,
           filtered_pools |-> filtered_pools, result |-> result,
           tweet_data |-> tweet_data, previous_tweets |-> previous_tweets,
           social_themes |-> social_themes,
           fresh_categories |-> fresh_categories,
           tried_categories |-> tried_categories, attempt |-> attempt,
           focus_category |-> focus_category,
           filtered_articles |-> filtered_articles, response |-> response,
           gen_calls |-> gen_calls]
    /\ pc' = waiting_run.pc
    /\ content_tracker' = waiting_run.content_tracker
    /\ available_articles' = waiting_run.available_articles
    /\ filtered_pools' = waiting_run.filtered_pools
    /\ result' = waiting_run.result
    /\ tweet_data' = waiting_run.tweet_data
    /\ previous_tweets' = waiting_run.previous_tweets
    /\ social_themes' = waiting_run.social_themes
    /\ fresh_categories' = waiting_run.fresh_categories
    /\ tried_categories' = waiting_run.tried_categories
    /\ attempt' = waiting_run.attempt
    /\ focus_category' = waiting_run.focus_category
    /\ filtered_articles' = waiting_run.filtered_articles
    /\ response' = waiting_run.response
    /\ gen_calls' = waiting_run.gen_calls
    /\ UNCHANGED <<now, save_error, service_state, persisted, twitter, runs>>

ConcurrentNext ==
    \/ StartRun
    \/ PoolsReturn
    \/ TweetsReturn
    \/ LoopIteration
    \/ GenerationReturns
    \/ GenerationFails
    \/ LoopExhausted
    \/ ReturnNoResult
    \/ HandleException
    \/ CheckSimilar
    \/ PostReturns
    \/ Switch

\* two tasks of the pipeline on one event loop, within the same hour
ConcurrentSpec == Init /\ [][ConcurrentNext]_vars

(***************************************************************************)
(* The service starts on files an earlier process left: generated_tweets   *)
(* .json holds posts that were accepted but not published, so none of them *)
(* was tracked.                                                            *)
(***************************************************************************)
\* an entry of generated_tweets.json for a post that was not published
Archived(text) ==
    [timestamp |-> isoformat(0), tweet |-> text, reasoning |-> "overview",
     posted_to_twitter |-> FALSE]

\* the 'tweets' lists the file can hold at the start.  In the first the post
\* that mentions Bitcoin and ETH is older than the last five; in the second
\* it is among the last five and a post without a word is older; in the
\* third the post without a word is among the last five.
ArchivesAtStart ==
    { <<Archived("Bitcoin ETH market: launch, users, law, hack, yield, network, DAO"),
        Archived("network scale the Rollups"),
        Archived("network scale the Rollups"),
        Archived("network scale the Rollups"),
        Archived("network scale the Rollups"),
        Archived("network scale the Rollups")>>,
      <<Archived(""),
        Archived("Bitcoin ETH market: launch, users, law, hack, yield, network, DAO"),
        Archived("network scale the Rollups"),
        Archived("network scale the Rollups"),
        Archived("network scale the Rollups"),
        Archived("network scale the Rollups")>>,
      <<Archived(""),
        Archived("network scale the Rollups"),
        Archived("network scale the Rollups"),
        Archived("network scale the Rollups"),
        Archived("network scale the Rollups")>> }

ArchiveInit ==
    /\ now = 0
    /\ tracking_file = EmptyTrackingData
    /\ tweets_archive \in ArchivesAtStart
    /\ summaries_archive = [processed_urls |-> <<>>, items |-> SummaryItems]
    /\ twitter = <<>>
    /\ runs = 0
    /\ pc = "idle"
    /\ save_error = FALSE
    /\ NoLocals
    /\ waiting_run = NotStarted
    /\ ServiceInit

\* the pipeline on an archive of earlier posts
ArchiveSpec == ArchiveInit /\ [][Next]_vars

(***************************************************************************)
(* helpers/tweets_cache.py: the cache of the followed users' tweets.       *)
(* fetch_recent_tweets hands update_user_tweets one answer of              *)
(* get_users_tweets at a time: at most 10 tweets of one user, newest       *)
(* first, each with its own id.                                            *)
(***************************************************************************)

\* sorted(...)[:10]
CacheSize == 10

\* two of TARGET_USERNAMES
TargetUsernames == {"MorpheusAIs", "pmarca"}

\* the ids of the tweets a user has written
TweetIds == 1..12

\* created_at of a user's tweet, in hours; the code compares the ISO strings
\* of one format, which order as the times do.  Tweets 6 and 7 were written
\* in the same hour.
CreatedAt(id) == IF id = 7 THEN 6 ELSE id

\* one element of user_tweets as fetch_recent_tweets builds it
UserTweet(username, id) ==
    [id |-> id, username |-> username, created_at |-> CreatedAt(id)]

\* the tweets of ids hi down to lo, newest first
TweetsFromTo(username, hi, lo) ==
    [i \in 1..(hi - lo + 1) |-> UserTweet(username, hi + 1 - i)]

\* the answers of get_users_tweets(max_results=10) for a user over time
UserTweetAnswers(username) ==
    { <<>>,
      TweetsFromTo(username, 2, 1),
      TweetsFromTo(username, 6, 1),
      TweetsFromTo(username, 7, 6),
      TweetsFromTo(username, 10, 5),
      TweetsFromTo(username, 12, 10),
      TweetsFromTo(username, 12, 3) }

\* TweetCache.update_user_tweets: the cache afterwards
update_user_tweets_AppendAll(cache, username, new_tweets) ==
    LET cached == IF username \in DOMAIN cache THEN cache[username] ELSE <<>>
        appended == cached \o new_tweets
        sorted == SortedDesc(appended, [i \in 1..Len(appended) |->
                                          appended[i].created_at])
    IN  DictPut(cache, username, FirstN(sorted, CacheSize))

\* TweetCache.update_user_tweets: the cache afterwards
update_user_tweets(cache, username, new_tweets) ==
    LET cached == IF username \in DOMAIN cache THEN cache[username] ELSE <<>>
        existing_ids == {cached[i].id : i \in 1..Len(cached)}
        IsNew(tweet) == tweet.id \notin existing_ids
        appended == cached \o SelectSeq(new_tweets, IsNew)
        sorted == SortedDesc(appended, [i \in 1..Len(appended) |->
                                          appended[i].created_at])
    IN  DictPut(cache, username, FirstN(sorted, CacheSize))

\* fetch_recent_tweets reaches update_user_tweets for one user with one
\* answer; _save_cache then writes the whole cache
UpdateUserTweets ==
    /\ pc \in {"idle", "update_user_tweets"}
    /\ \E username \in TargetUsernames :
         \E new_tweets \in UserTweetAnswers(username) :
            tweet_cache' = update_user_tweets(tweet_cache, username, new_tweets)
    /\ cache_file' = tweet_cache'
    /\ pc' = "update_user_tweets"
    /\ UNCHANGED <<now, save_error, waiting_run, post_call, summaries_state,
                   content_tracker, tracking_file, tracker_frame>>

CacheNext == UpdateUserTweets

\* the tweet cache under any sequence of updates
CacheSpec == Init /\ [][CacheNext]_vars

(***************************************************************************)
(* helpers/twitter_helpers.py: post_tweet and the retries of               *)
(* _make_twitter_request, one call of the request function at a time,      *)
(* inside the pipeline.  The API is configured.                            *)
(***************************************************************************)

\* self.max_retries of TwitterAPI
twitter_max_retries == 3

\* how one call of request_func ends: a result, or the exception of one of
\* the except clauses of _make_twitter_request
RequestOutcomes ==
    {"ok", "connection_error", "rate_limit", "server_error", "unexpected"}

\* _make_twitter_request after the calls of log, the last of which it has
\* handled: calling again, or how it has ended
RequestStatus_RetriesUnexpected(log) ==
    IF log = <<>> THEN "calling"
    ELSE LET attempt_ == Len(log) - 1
             outcome == log[Len(log)]
         IN  CASE outcome = "ok" -> "returned"
               [] outcome = "connection_error" ->
                     IF attempt_ = twitter_max_retries - 1
                     THEN "raised_connection_error" ELSE "calling"
               [] outcome \in {"rate_limit", "server_error", "unexpected"} ->
                     IF attempt_ + 1 < twitter_max_retries
                     THEN "calling" ELSE "returned_none"

\* _make_twitter_request after the calls of log, the last of which it has
\* handled: calling again, or how it has ended
RequestStatus(log) ==
    IF log = <<>> THEN "calling"
    ELSE LET attempt_ == Len(log) - 1
             outcome == log[Len(log)]
         IN  CASE outcome = "ok" -> "returned"
               [] outcome = "connection_error" ->
                     IF attempt_ = twitter_max_retries - 1
                     THEN "raised_connection_error" ELSE "calling"
               [] outcome \in {"rate_limit", "server_error"} ->
                     IF attempt_ + 1 < twitter_max_retries
                     THEN "calling" ELSE "returned_none"
               [] outcome = "unexpected" -> "raised_unexpected"

\* one iteration of the loop of _make_twitter_request: request_func is called
MakeTwitterRequestCall ==
    /\ pc = "posting"
    /\ post_call.step \in {"create_tweet", "get_me"}
    /\ RequestStatus(post_call.log) = "calling"
    /\ \E outcome \in RequestOutcomes :
          post_call' = [post_call EXCEPT !.log = Append(@, outcome)]
    /\ UNCHANGED <<now, save_error, waiting_run, tweet_cache, cache_file,
                   summaries_state, persisted, twitter, runs, pc, main_locals,
                   loop_locals>>

\* post_tweet after a request has ended: with a response of create_tweet it
\* goes on to get_me, otherwise it is about to return
PostTweetContinues(call) ==
    LET status == RequestStatus(call.log)
    IN  IF call.step = "create_tweet"
        THEN IF status = "returned"
             THEN [step |-> "get_me", log |-> <<>>, response |-> status,
                   me |-> "none"]
             ELSE [step |-> "returned", log |-> <<>>, response |-> status,
                   me |-> "none"]
        ELSE [step |-> "returned", log |-> <<>>, response |-> call.response,
              me |-> status]

\* post_tweet, lines 172-197, after _make_twitter_request has ended
RequestEnds ==
    /\ pc = "posting"
    /\ post_call.step \in {"create_tweet", "get_me"}
    /\ RequestStatus(post_call.log) # "calling"
    /\ post_call' = PostTweetContinues(post_call)
    /\ UNCHANGED <<now, save_error, waiting_run, tweet_cache, cache_file,
                   summaries_state, persisted, twitter, runs, pc, main_locals,
                   loop_locals>>

\* what post_tweet has done when it returns: True only after get_me has
\* answered; the tweet is on Twitter once create_tweet has answered
PostOutcome_ResponseUnchecked(call) ==
    IF call.response \notin {"returned", "returned_none"} THEN "not_posted"
    ELSE "posted"

\* what post_tweet has done when it returns: True only after get_me has
\* answered; the tweet is on Twitter once create_tweet has answered
PostOutcome(call) ==
    IF call.response # "returned" THEN "not_posted"
    ELSE IF call.me = "returned" THEN "posted"
    ELSE "posted_unconfirmed"

\* post_tweet returns to generate_and_post_tweet
PostTweetReturns ==
    /\ post_call.step = "returned"
    /\ PostReturnsWith(PostOutcome(post_call))
    /\ post_call' = NoPostCall
    /\ UNCHANGED <<tweet_cache, cache_file, summaries_state>>

PostingNext ==
    \/ StartRun
    \/ PoolsReturn
    \/ TweetsReturn
    \/ LoopIteration
    \/ GenerationReturns
    \/ GenerationFails
    \/ LoopExhausted
    \/ ReturnNoResult
    \/ HandleException
    \/ CheckSimilar
    \/ MakeTwitterRequestCall
    \/ RequestEnds
    \/ PostTweetReturns
    \/ Tick

\* the pipeline with the requests of post_tweet
PostingSpec == Init /\ [][PostingNext]_vars

(***************************************************************************)
(* agents/agent.py: fetch_and_generate_summaries, one step per await of    *)
(* generate_summary.  The feed lists every link once.                      *)
(***************************************************************************)

\* what the service leaves alone while it summarizes
summaries_frame ==
    <<now, save_error, waiting_run, tweet_cache, cache_file, post_call,
      tracking_file, tweets_archive, twitter, runs, pc, main_locals,
      loop_locals>>

\* the calls of fetch_and_generate_summaries looked at
MaxSummaryRuns == 3

\* an article of the feed as fetch_crypto_news returns it
FeedArticle(n) ==
    [title |-> SummaryItems[n].title, link |-> SummaryItems[n].link]

\* what fetch_crypto_news can return: the articles of the last 24 hours
Feeds ==
    { <<>>,
      <<FeedArticle(1), FeedArticle(2)>>,
      <<FeedArticle(2), FeedArticle(3)>>,
      <<FeedArticle(1), FeedArticle(2), FeedArticle(3)>> }

\* the text generate_summary returns for an article when the model answers
SummaryOf(article) ==
    LET n == CHOOSE k \in 1..Len(SummaryItems) :
                 SummaryItems[k].link = article.link
    IN  SummaryItems[n].summary

\* generate_summary: the text, or None ("") after any exception
generate_summary(article) == {"", SummaryOf(article)}

\* lines 400-420: the archive is loaded, the feed fetched and filtered
StartedTask(archive, all_news) ==
    LET NotProcessed(article) ==
            article.link \notin Range(archive.processed_urls)
        unprocessed_news == SelectSeq(all_news, NotProcessed)
    IN  IF all_news = <<>> \/ unprocessed_news = <<>>
        THEN NoSummaryTask
        ELSE [pc |-> "generate_summary", summaries_archive |-> archive,
              unprocessed_news |-> unprocessed_news, i |-> 1]

\* lines 436-448: the archive in memory after generate_summary has returned
AfterSummary_UrlAlways(archive, article, summary) ==
    IF summary # ""
    THEN [processed_urls |-> Append(archive.processed_urls, article.link),
          items |-> Append(archive.items,
                           [title |-> article.title, link |-> article.link,
                            summary |-> summary])]
    ELSE [archive EXCEPT
            !.processed_urls = Append(archive.processed_urls, article.link)]

\* lines 436-448: the archive in memory after generate_summary has returned
AfterSummary(archive, article, summary) ==
    IF summary # ""
    THEN [processed_urls |-> Append(archive.processed_urls, article.link),
          items |-> Append(archive.items,
                           [title |-> article.title, link |-> article.link,
                            summary |-> summary])]
    ELSE archive

\* fetch_and_generate_summaries is called, up to its first await
StartSummaries ==
    /\ summary_task.pc = "idle"
    /\ summary_runs < MaxSummaryRuns
    /\ summary_runs' = summary_runs + 1
    /\ \E all_news \in Feeds :
          summary_task' = StartedTask(summaries_archive, all_news)
    /\ UNCHANGED <<waiting_summary_task, summaries_archive, summaries_frame>>

\* generate_summary has returned with the given value: the rest of the loop
\* body, then the next await, or after the last article save_archive
SummaryReturnsWith(summary) ==
    /\ summary_task.pc = "generate_summary"
    /\ LET article == summary_task.unprocessed_news[summary_task.i]
           archive == AfterSummary(summary_task.summaries_archive, article,
                                   summary)
       IN  /\ summary \in generate_summary(article)
           /\ IF summary_task.i < Len(summary_task.unprocessed_news)
              THEN /\ summary_task' =
                         [summary_task EXCEPT !.summaries_archive = archive,
                                              !.i = @ + 1]
                   /\ UNCHANGED summaries_archive
              ELSE /\ summaries_archive' = archive
                   /\ summary_task' = NoSummaryTask
    /\ UNCHANGED <<waiting_summary_task, summary_runs, summaries_frame>>

SummaryReturns ==
    \E summary \in {SummaryItems[n].summary : n \in 1..Len(SummaryItems)}
                      \cup {""} :
        SummaryReturnsWith(summary)

\* the event loop runs the other task while this one waits or has returned
SwitchSummaryTask ==
    /\ summary_task.pc # "idle" \/ waiting_summary_task.pc # "idle"
    /\ summary_task' = waiting_summary_task
    /\ waiting_summary_task' = summary_task
    /\ UNCHANGED <<summary_runs, summaries_archive, summaries_frame>>

\* the files as initialize_files leaves them
SummariesInit ==
    /\ now = 0
    /\ tracking_file = EmptyTrackingData
    /\ tweets_archive = <<>>
    /\ summaries_archive = [processed_urls |-> <<>>, items |-> <<>>]
    /\ twitter = <<>>
    /\ runs = 0
    /\ pc = "idle"
    /\ save_error = FALSE
    /\ NoLocals
    /\ waiting_run = NotStarted
    /\ ServiceInit

SummariesNext ==
    \/ StartSummaries
    \/ SummaryReturns

\* one call of fetch_and_generate_summaries after another
SummariesSpec == SummariesInit /\ [][SummariesNext]_vars

OverlappingNext ==
    \/ StartSummaries
    \/ SummaryReturns
    \/ SwitchSummaryTask

\* the scheduled job and /trigger-summary on one event loop
OverlappingSpec == SummariesInit /\ [][OverlappingNext]_vars

(***************************************************************************)
(* Properties                                                              *)
(***************************************************************************)
\* the notion of "too similar" the properties speak of: the Jaccard index of
\* the two lower-cased word sets is above the threshold for a post stored in
\* the tracker and not older than the window at time t
TooSimilar(text, tracking_data, t) ==
    \E h \in DOMAIN tracking_data.generated_tweets :
        LET stored == tracking_data.generated_tweets[h]
            A == Range(LowerWords(text))
            B == Range(LowerWords(stored.text))
        IN  /\ t - fromisoformat(stored.timestamp) <= SimilarWindowHours
            /\ A \cup B # {}
            /\ Cardinality(A \cap B) * SimilarityThresholdDen
                 > SimilarityThresholdNum * Cardinality(A \cup B)

\* C1: every run of the selection loop makes at most max_retries iterations
\* and at most max_retries generation calls, and ends either in Accepted with
\* (postText, reasoning) or in Exhausted with the empty result; it never ends
\* in any other way.
C1_LoopEndsAcceptedOrExhausted ==
    /\ attempt <= max_retries
    /\ gen_calls <= max_retries
    /\ pc = "accepted" => Len(result) = 2
    /\ pc = "exhausted" => result = <<>>
    /\ pc # "raised"

\* C2: whatever a pipeline run posts to the platform, appends to the tweet
\* archive or tracks is a draft that was not too similar to a post tracked in
\* the 48 hours before the draft was made; a too similar draft is never
\* posted, archived or tracked.
C2_SimilarDraftNeverPublished ==
    [][(\/ twitter' # twitter
        \/ tweets_archive' # tweets_archive
        \/ tracking_file' # tracking_file)
       => /\ pc = "posting"
          /\ ~TooSimilar(result[1], tracking_file,
                         fromisoformat(tweet_data.timestamp))]_vars

\* a run holds a draft that is too similar to a post published before
C2_Witness ==
    /\ pc = "accepted"
    /\ twitter # <<>>
    /\ TooSimilar(result[1], content_tracker, now)

C4_AcceptedAvoidsRecentPatterns ==
    pc = "accepted" =>
        /\ LowerWords(result[1]) # <<>> =>
              LowerWords(result[1])[1] \notin RecentPhrases(previous_tweets)
        /\ \A token \in RecentTokens(previous_tweets) :
              ~Contains(LowerOf(token), LowerOf(result[1]))

\* a post is returned while there are recent phrases and recent tokens
C4_Witness ==
    /\ pc = "accepted"
    /\ result[1] # ""
    /\ RecentPhrases(previous_tweets) # {}
    /\ RecentTokens(previous_tweets) # {}

\* C5: no step of a run before acceptance writes to a persisted store, and a
\* run that ends in Exhausted returns without writing: the tracker store and
\* the archives are the same after the step as before it.
C5_NoWriteWithoutAcceptance ==
    [][(pc \in {"pools", "tweets", "loop", "generating", "exhausted"})
       => /\ tracking_file' = tracking_file
          /\ tweets_archive' = tweets_archive
          /\ summaries_archive' = summaries_archive
          /\ pc = "exhausted" => pc' = "idle"]_vars

\* a run ended in Exhausted after max_retries generation calls
C5_Witness ==
    /\ pc = "exhausted"
    /\ gen_calls = max_retries

\* C6: the tracker store changes in a step only if that step is the return of
\* a post_tweet that published the run's post and reported success.
C6_TrackedOnlyWhenPublished ==
    [][tracking_file' # tracking_file
       => /\ pc = "posting"
          /\ twitter' = Append(twitter, result[1])
          /\ tweets_archive'[Len(tweets_archive')].posted_to_twitter]_vars

\* one run's post was accepted but not published and left the tracker as it
\* was, the next run's post was published and tracked
C6_Witness ==
    /\ Len(tweets_archive) = 2
    /\ ~tweets_archive[1].posted_to_twitter
    /\ tweets_archive[2].posted_to_twitter
    /\ Cardinality(DOMAIN tracking_file.generated_tweets) = 1

\* C7: the fresh categories of a run are those of the tracker when the run
\* computes them and stay the same during the run; every attempt chooses one
\* of them that no earlier attempt of the run chose; when none is left the
\* run ends in Exhausted without a generation call.
C7_FreshUntriedCategory ==
    [][/\ (pc = "tweets" /\ pc' = "loop")
          => /\ Range(fresh_categories') = get_fresh_categories(tracking_file, now)
             /\ tried_categories' = {}
       /\ (pc \in {"loop", "generating"} /\ pc' # "idle")
          => fresh_categories' = fresh_categories
       /\ (pc = "loop" /\ pc' \in {"loop", "generating"})
          => /\ focus_category' \in Range(fresh_categories) \ tried_categories
             /\ tried_categories' = tried_categories \cup {focus_category'}
       /\ pc = "generating" => tried_categories' = tried_categories
       /\ (pc = "loop" /\ attempt < max_retries
             /\ Range(fresh_categories) \subseteq tried_categories)
          => /\ pc' = "exhausted"
             /\ result' = <<>>
             /\ gen_calls' = gen_calls]_vars

\* a run ended in Exhausted because no fresh category was left
C7_Witness ==
    /\ pc = "exhausted"
    /\ attempt < max_retries
    /\ gen_calls = 0
    /\ Range(fresh_categories) \subseteq tried_categories

\* the lower-cased word "bitcoin"
BitcoinWord == LowerOf("Bitcoin")

\* one of the last LastTweets archived posts starts with the word Bitcoin
LastPostsStartWithBitcoin(tweets) ==
    \E i \in DOMAIN tweets :
        /\ Len(tweets) - i < LastTweets
        /\ LowerWords(tweets[i].tweet) # <<>>
        /\ LowerWords(tweets[i].tweet)[1] = BitcoinWord

\* the draft of a response starts with the word Bitcoin, in any letter case
DraftStartsWithBitcoin(resp) ==
    /\ resp \in Responses
    /\ LowerWords(ParseTable[resp].tweet_text) # <<>>
    /\ LowerWords(ParseTable[resp].tweet_text)[1] = BitcoinWord

\* C8: when a recent archived post starts with "Bitcoin", a draft whose first
\* word is "Bitcoin" in any letter case is rejected; while budget and a fresh
\* untried category remain the loop goes on to another attempt, and that
\* attempt uses a category different from the rejected one.
C8_BitcoinDraftRejected ==
    [][/\ (pc = "generating" /\ LastPostsStartWithBitcoin(previous_tweets)
             /\ DraftStartsWithBitcoin(response'))
          => /\ pc' = "loop"
             /\ result' = <<>>
             /\ attempt' = attempt + 1
       /\ (pc = "loop" /\ LastPostsStartWithBitcoin(previous_tweets)
             /\ DraftStartsWithBitcoin(response))
          => /\ (attempt < max_retries
                   /\ Range(fresh_categories) \ tried_categories # {})
                => pc' \in {"loop", "generating"}
             /\ pc' \in {"loop", "generating"}
                => focus_category' # focus_category]_vars

\* a Bitcoin draft was rejected and the run has budget and a category left
C8_Witness ==
    /\ pc = "loop"
    /\ LastPostsStartWithBitcoin(previous_tweets)
    /\ DraftStartsWithBitcoin(response)
    /\ attempt < max_retries
    /\ Range(fresh_categories) \ tried_categories # {}

\* C9: every article of the filtered set of an attempt has the chosen
\* category among its classified categories and a title whose lower-cased
\* text contains no lower-cased recent token; the generator is called with a
\* filtered set that is not empty.
C9_FilteredArticlesFit ==
    /\ \A i \in DOMAIN filtered_articles :
          /\ focus_category \in
                categorize_content(Concat3(filtered_articles[i].title, " ",
                                           filtered_articles[i].summary))
          /\ \A token \in RecentTokens(previous_tweets) :
                ~Contains(LowerOf(token), LowerOf(filtered_articles[i].title))
    /\ pc = "generating" => filtered_articles # <<>>

\* "ETH" is a recent token and the generator is called for a category one of
\* whose articles has "ETH" in its title
C9_Witness ==
    /\ pc = "generating"
    /\ "ETH" \in RecentTokens(previous_tweets)
    /\ \E i \in DOMAIN articles :
          /\ focus_category \in
                categorize_content(Concat3(articles[i].title, " ",
                                           articles[i].summary))
          /\ Contains(LowerOf("ETH"), LowerOf(articles[i].title))

\* the response has no line with the post-text prefix, or such lines carry
\* no text
NoPostText ==
    [resp \in Responses |->
        \A line \in Range(SplitOn(Chars(resp), "\n")) :
            StartsWith(line, Chars(TweetPrefix)) => line = Chars(TweetPrefix)]

\* C10: when the response has no line with the post-text prefix, or that line
\* carries no text, the attempt fails: the loop goes to its next iteration
\* with one attempt more used, raises nothing and returns no post.
C10_NoPostTextFailsAttempt ==
    [][(pc = "generating" /\ response' \in Responses /\ NoPostText[response'])
       => /\ pc' = "loop"
          /\ attempt' = attempt + 1
          /\ result' = <<>>]_vars

\* an attempt failed on a response without post text
C10_Witness ==
    /\ pc = "loop"
    /\ attempt > 0
    /\ response \in Responses
    /\ NoPostText[response]
\* C11: a generation call that raises is handled like an attempt without
\* usable output: the run stays in the loop with one more iteration used, no
\* result, no further category consumed and nothing written; the next
\* iteration, if there is one, takes a category not tried before.
C11_FailedCallIsFailedAttempt ==
    [][/\ (pc = "generating" /\ response' = "")
          => /\ pc' = "loop"
             /\ attempt' = attempt + 1
             /\ result' = <<>>
             /\ gen_calls' = gen_calls
             /\ tried_categories' = tried_categories
             /\ fresh_categories' = fresh_categories
             /\ previous_tweets' = previous_tweets
             /\ <<tracking_file, tweets_archive, twitter>>' =
                   <<tracking_file, tweets_archive, twitter>>
       /\ (pc = "loop" /\ response = "" /\ gen_calls = attempt /\ attempt > 0
             /\ pc' \in {"loop", "generating"})
          => /\ focus_category' \notin tried_categories
             /\ focus_category' \in Range(fresh_categories)]_vars

\* the last iteration called the generator and the call raised: every
\* iteration so far made a call and the last one left no response
C11_Witness ==
    /\ pc = "loop"
    /\ response = ""
    /\ gen_calls = attempt
    /\ attempt > 0
    /\ attempt < max_retries

\* C12: a run of the selection loop ends by returning a post or the empty
\* result and never propagates a fault to its caller.
C12_NoFaultLeavesLoop ==
    pc # "raised"
\* the articles is_article_processed is asked about: one the tracker is
\* called with and one it never tracks
ProcessedQueries == TrackerArticles \cup {SummaryItems[2]}

\* the hours since the time a record carries in one of its fields
Elapsed(stamp) == now - fromisoformat(stamp)

\* C13: a call of track_article stamps the record with the time of the call
\* and no later call changes the stamp, so the stamp is the time of the last
\* tracking; is_article_processed is true right after the call, true while
\* less than 48 hours have passed since the stamp, false once more than 48
\* hours have passed although the record is still stored, and false for an
\* article without a record.
C13_ProcessedFor48Hours ==
    [][\A article \in ProcessedQueries :
          LET h == article_hash(article)
              before == content_tracker.article_hashes
              after == content_tracker'.article_hashes
              processed == is_article_processed(content_tracker', article, now')
          IN  /\ (h \in DOMAIN before /\ h \in DOMAIN after /\ after[h] # before[h])
                 => after[h].timestamp = isoformat(now)
              /\ (h \notin DOMAIN before /\ h \in DOMAIN after)
                 => /\ after[h].timestamp = isoformat(now)
                    /\ processed
              /\ h \notin DOMAIN after => ~processed
              /\ h \in DOMAIN after
                 => /\ now' - fromisoformat(after[h].timestamp) < 48 => processed
                    /\ now' - fromisoformat(after[h].timestamp) > 48 => ~processed]_vars

\* a record is still stored more than 48 hours after the tracking and the
\* article is reported as not processed
C13_Witness ==
    \E article \in TrackerArticles :
        /\ article_hash(article) \in DOMAIN content_tracker.article_hashes
        /\ Elapsed(content_tracker.article_hashes[article_hash(article)].timestamp) > 48
        /\ ~is_article_processed(content_tracker, article, now)

\* the stored posts whose categories count at time `now`: generated less
\* than 24 hours ago
PostsOfLastDay ==
    {h \in DOMAIN content_tracker.generated_tweets :
        Elapsed(content_tracker.generated_tweets[h].timestamp) < 24}

\* C14: a category is fresh iff no post generated in the last 24 hours
\* classifies into it; so every category is fresh when no post was generated
\* in the last 24 hours and none is when every category was used.
C14_FreshIsUnusedInLastDay ==
    LET fresh == get_fresh_categories(content_tracker, now)
        used(c) == \E h \in PostsOfLastDay :
                      c \in categorize_content(content_tracker.generated_tweets[h].text)
    IN  /\ fresh \subseteq CategoryNames
        /\ \A c \in CategoryNames : c \in fresh <=> ~used(c)
        /\ PostsOfLastDay = {} => fresh = CategoryNames
        /\ (\A c \in CategoryNames : used(c)) => fresh = {}

\* a post older than 24 hours and a post of the last 24 hours are stored:
\* only the categories of the second are missing from the fresh ones
C14_Witness ==
    /\ PostsOfLastDay # {}
    /\ PostsOfLastDay # DOMAIN content_tracker.generated_tweets
    /\ get_fresh_categories(content_tracker, now) \notin {{}, CategoryNames}
\* the archived posts of the last 24 hours: the drafts the loop accepted
\* (and the pipeline did not discard as too similar) less than 24 hours ago
AcceptedInLastDay(published_only) ==
    {i \in DOMAIN tweets_archive :
        /\ now - fromisoformat(tweets_archive[i].timestamp) < 24
        /\ published_only => tweets_archive[i].posted_to_twitter}

\* the categories of these posts
CategoriesOf(posts) ==
    UNION {categorize_content(tweets_archive[i].tweet) : i \in posts}

\* C15 as stated: when a run computes its fresh categories, no category of a
\* post the loop accepted in the last 24 hours is among them.
C15_AcceptedCategoryNotFresh ==
    [][(pc = "tweets" /\ pc' = "loop")
       => Range(fresh_categories') \cap CategoriesOf(AcceptedInLastDay(FALSE)) = {}]_vars

\* C15, amended: when a run computes its fresh categories, no category of a
\* post that was accepted in the last 24 hours and published with success is
\* among them (an accepted post that was not published excludes nothing).
C15_PublishedCategoryNotFresh ==
    [][(pc = "tweets" /\ pc' = "loop")
       => Range(fresh_categories') \cap CategoriesOf(AcceptedInLastDay(TRUE)) = {}]_vars

\* a run has computed its fresh categories less than 24 hours after a post
\* with a category was published
C15_Witness ==
    /\ pc = "loop"
    /\ attempt = 0
    /\ CategoriesOf(AcceptedInLastDay(TRUE)) # {}
    /\ Range(fresh_categories) # {}
\* the candidate texts is_tweet_similar is asked about
SimilarQueries == TrackerTweets \cup {"the market pumped today", " "}

\* the texts of the posts stored not more than 48 hours ago
StoredInLastTwoDays ==
    {content_tracker.generated_tweets[h].text :
        h \in {k \in DOMAIN content_tracker.generated_tweets :
                 Elapsed(content_tracker.generated_tweets[k].timestamp) <= 48}}

\* C16: is_tweet_similar is true iff the Jaccard index of the word sets of
\* the candidate and of some post stored in the last 48 hours is above 0.7,
\* that is 10 * |intersection| > 7 * |union|; older posts never count.
\* "the market pumped today" is too similar to a stored "the market pumped
\* hard today" and not to "layer2 adoption keeps growing".
C16_SimilarIffJaccardAboveThreshold ==
    /\ \A text \in SimilarQueries :
          is_tweet_similar(content_tracker, text, now)
            <=> \E stored \in StoredInLastTwoDays :
                   LET A == Range(LowerWords(text))
                       B == Range(LowerWords(stored))
                   IN  /\ A \cup B # {}
                       /\ 10 * Cardinality(A \cap B) > 7 * Cardinality(A \cup B)
    /\ "the market pumped hard today" \in StoredInLastTwoDays
          => is_tweet_similar(content_tracker, "the market pumped today", now)
    /\ StoredInLastTwoDays \subseteq {"layer2 adoption keeps growing"}
          => ~is_tweet_similar(content_tracker, "the market pumped today", now)

\* "the market pumped hard today" is stored for more than 48 hours and
\* "layer2 adoption keeps growing" for less: "the market pumped today" is not
\* too similar
C16_Witness ==
    /\ StoredInLastTwoDays = {"layer2 adoption keeps growing"}
    /\ "the market pumped hard today" \in DOMAIN content_tracker.generated_tweets
    /\ ~is_tweet_similar(content_tracker, "the market pumped today", now)

\* C17: when the word sets of the candidate and of a stored post of the last
\* 48 hours are both empty, is_tweet_similar raises nothing.
C17_EmptyWordSetsRaiseNothing ==
    \A text \in SimilarQueries :
        ~is_tweet_similar_raises(content_tracker, text, now)
\* the articles is_topic_overused is asked about: those of the summaries
\* archive and one whose text has no category
OverusedQueries ==
    Range(SummaryItems)
      \cup {[title |-> "Monday notes", link |-> "u7", summary |-> ""]}

\* how many posts of the last 24 hours classify into category c
UsesInLastDay(c) ==
    Cardinality({h \in PostsOfLastDay :
        c \in categorize_content(content_tracker.generated_tweets[h].text)})

\* C18: is_topic_overused is true iff some category of the article's text
\* was used at least twice by the posts of the last 24 hours, a post
\* counting once for each of its categories; an article without a category
\* is never overused.
C18_OverusedIffCategoryUsedTwice ==
    \A article \in OverusedQueries :
        LET categories ==
                categorize_content(Concat3(article.title, " ", article.summary))
            overused == is_topic_overused(content_tracker, article, now)
        IN  /\ overused <=> \E c \in categories : UsesInLastDay(c) >= 2
            /\ categories = {} => ~overused

\* two posts of the last 24 hours share a category: the articles of that
\* category are overused, the article without a category is not
C18_Witness ==
    /\ \E c \in CategoryNames : UsesInLastDay(c) = 2
    /\ \E article \in OverusedQueries :
          is_topic_overused(content_tracker, article, now)
    /\ \E article \in OverusedQueries :
          /\ categorize_content(Concat3(article.title, " ", article.summary)) = {}
          /\ ~is_topic_overused(content_tracker, article, now)
\* the tokens and the hours is_token_recently_mentioned is asked about: a
\* token the tracker is called with and one it never tracks
TokenQueries == TrackerTokens \cup {"USDC"}
HoursQueries == {24, 48}

\* C19: a call of track_token_mention stamps the token's record with the
\* time of the call and no other call changes the stamp, so the stamp is the
\* time of the last mention; is_token_recently_mentioned(token, hours) is
\* true right after the call and, at any time, true iff the token has a
\* record whose stamp is less than `hours` old; it is false for a token that
\* was never tracked.
C19_RecentlyMentionedWithinHours ==
    [][\A token \in TokenQueries, hours \in HoursQueries :
          LET before == content_tracker.token_mentions
              after == content_tracker'.token_mentions
              recently == is_token_recently_mentioned(content_tracker', token,
                                                      hours, now')
          IN  /\ (token \in DOMAIN after
                    /\ (token \in DOMAIN before => after[token] # before[token]))
                 => /\ after[token].last_mention = isoformat(now)
                    /\ recently
              /\ recently <=>
                    /\ token \in DOMAIN after
                    /\ now' - fromisoformat(after[token].last_mention) < hours
              /\ token \notin TrackerTokens => ~recently]_vars

\* a token was mentioned twice and its last mention is 24 hours old: it
\* counts as recently mentioned for 48 hours and not for 24
C19_Witness ==
    \E token \in TrackerTokens :
        /\ token \in DOMAIN content_tracker.token_mentions
        /\ content_tracker.token_mentions[token].mention_count = 2
        /\ Elapsed(content_tracker.token_mentions[token].last_mention) = 24
        /\ is_token_recently_mentioned(content_tracker, token, 48, now)
        /\ ~is_token_recently_mentioned(content_tracker, token, 24, now)

\* the three mappings of the tracking data with the field that holds the
\* time of their records
RecordKinds ==
    {<<"article_hashes", "timestamp">>, <<"token_mentions", "last_mention">>,
     <<"generated_tweets", "timestamp">>}

\* C20: after cleanup_old_data(days) no record of the three kinds is older
\* than now minus the days, every record newer than that is kept as it was,
\* no record is added, the topic clusters are untouched and the result is
\* saved.
C20_CleanupDropsOldKeepsNew ==
    [][(pc' = "cleanup_old_data" /\ now' = now)
       => \E days \in CleanupDays :
             /\ \A kind \in RecordKinds :
                   LET before == content_tracker[kind[1]]
                       after == content_tracker'[kind[1]]
                       cutoff == now - days * 24
                   IN  /\ DOMAIN after \subseteq DOMAIN before
                       /\ \A k \in DOMAIN after :
                             ~(fromisoformat(after[k][kind[2]]) < cutoff)
                       /\ \A k \in DOMAIN before :
                             fromisoformat(before[k][kind[2]]) > cutoff
                               => k \in DOMAIN after /\ after[k] = before[k]
             /\ content_tracker'.topic_clusters = content_tracker.topic_clusters
             /\ tracking_file' = content_tracker']_vars

\* a cleanup was the last call, at a time when the clock was past the
\* second day: it left a post of the day before and no older record
C20_Witness ==
    /\ pc = "cleanup_old_data"
    /\ now >= 48
    /\ \E h \in DOMAIN content_tracker.generated_tweets :
          Elapsed(content_tracker.generated_tweets[h].timestamp) = 24
    /\ \A kind \in RecordKinds : \A k \in DOMAIN content_tracker[kind[1]] :
          Elapsed(content_tracker[kind[1]][k][kind[2]]) < 48
    /\ tracking_file = content_tracker
\* the step is a call of the tracker whose save failed
SaveFailed == save_error' /\ now' = now

\* the step logs an error of the save after a save without error
SaveErrorLogged == save_error' /\ ~save_error

\* C21: when the save fails during a track or cleanup call, the call returns
\* as usual and the tracker's store in memory holds the update: the queries
\* on that tracker see the tracked article as processed, the tracked token
\* as recently mentioned, the categories of the tracked post as used and the
\* post as similar to itself, and after a cleanup no record older than the
\* cutoff.
C21_FailedSaveKeepsUpdateInMemory ==
    [][SaveFailed =>
          /\ pc' \in {"track_article", "track_token_mention",
                      "track_generated_tweet", "cleanup_old_data"}
          /\ now' = now
          /\ pc' = "track_article" =>
                \E article \in TrackerArticles :
                   /\ article_hash(article) \in DOMAIN content_tracker'.article_hashes
                   /\ content_tracker'.article_hashes[article_hash(article)].timestamp
                         = isoformat(now)
                   /\ is_article_processed(content_tracker', article, now)
          /\ pc' = "track_token_mention" =>
                \E token \in TrackerTokens :
                   /\ token \in DOMAIN content_tracker'.token_mentions
                   /\ content_tracker'.token_mentions[token].last_mention
                         = isoformat(now)
                   /\ token \in DOMAIN content_tracker.token_mentions =>
                         content_tracker'.token_mentions[token].mention_count
                           = content_tracker.token_mentions[token].mention_count + 1
                   /\ is_token_recently_mentioned(content_tracker', token, 24, now)
          /\ pc' = "track_generated_tweet" =>
                \E text \in TrackerTweets :
                   LET stored == content_tracker'.generated_tweets[
                                     generate_content_hash(text)]
                   IN  /\ generate_content_hash(text)
                            \in DOMAIN content_tracker'.generated_tweets
                       /\ stored.text = text
                       /\ stored.timestamp = isoformat(now)
                       /\ get_fresh_categories(content_tracker', now)
                            \cap categorize_content(text) = {}
                       /\ token_set(text) # {} =>
                            is_tweet_similar(content_tracker', text, now)
          /\ pc' = "cleanup_old_data" =>
                \E days \in CleanupDays : \A kind \in RecordKinds :
                   LET before == content_tracker[kind[1]]
                       after == content_tracker'[kind[1]]
                   IN  /\ DOMAIN after =
                            {k \in DOMAIN before :
                               fromisoformat(before[k][kind[2]]) > now - days * 24}
                       /\ \A k \in DOMAIN after : after[k] = before[k]]_vars

\* the save failed when a post was tracked: the tracker in memory reports
\* the post's categories as used, the archive file does not hold the post
C21_Witness ==
    /\ save_error
    /\ pc = "track_generated_tweet"
    /\ DOMAIN content_tracker.generated_tweets # DOMAIN tracking_file.generated_tweets
    /\ tracking_file # EmptyTrackingData
    /\ get_fresh_categories(content_tracker, now) # CategoryNames
    /\ get_fresh_categories(tracking_file, now) = CategoryNames
\* the posts of the archive that were published with success: the posts a
\* run of this process tracked
PublishedPosts == {i \in DOMAIN tweets_archive : tweets_archive[i].posted_to_twitter}

\* the record of an archived post is in the tracking data
RecordVisible(i, tracking_data) ==
    generate_content_hash(tweets_archive[i].tweet)
        \in DOMAIN tracking_data.generated_tweets

SavingCalls ==
    {"track_article", "track_token_mention", "track_generated_tweet",
     "cleanup_old_data"}

\* C23: after every track call and every cleanup whose save did not fail,
\* the archive file holds the whole store of the tracker as it is in memory,
\* the records of earlier calls included, also those whose own save failed.
C23_SavedStoreEqualsMemory ==
    [][(pc' \in SavingCalls /\ now' = now /\ ~save_error')
       => /\ tracking_file' = content_tracker'
          /\ \A kind \in RecordKinds :
                DOMAIN tracking_file'[kind[1]] = DOMAIN content_tracker'[kind[1]]]_vars

\* a token was tracked last and its save did not fail: the file holds the
\* records of the three kinds that the tracker holds
C23_Witness ==
    /\ pc = "track_token_mention"
    /\ ~save_error
    /\ \A kind \in RecordKinds : DOMAIN content_tracker[kind[1]] # {}
    /\ tracking_file = content_tracker
\* the step is a call of the tracker that returned as `call`
Called(call) == pc' = call /\ now' = now

\* C24: track_article changes only the mapping of the article hashes,
\* track_token_mention only the mapping of the tokens, track_generated_tweet
\* only the mapping of the posts; so a record of an article and a record of a
\* post under the same hash do not replace each other, and tracking a post
\* never changes what is_article_processed says of an article with the
\* hash of the post.
C24_RecordKindsApart ==
    [][/\ Called("track_article") =>
             /\ content_tracker'.token_mentions = content_tracker.token_mentions
             /\ content_tracker'.generated_tweets = content_tracker.generated_tweets
             /\ content_tracker'.topic_clusters = content_tracker.topic_clusters
       /\ Called("track_token_mention") =>
             /\ content_tracker'.article_hashes = content_tracker.article_hashes
             /\ content_tracker'.generated_tweets = content_tracker.generated_tweets
             /\ content_tracker'.topic_clusters = content_tracker.topic_clusters
       /\ Called("track_generated_tweet") =>
             /\ content_tracker'.article_hashes = content_tracker.article_hashes
             /\ content_tracker'.token_mentions = content_tracker.token_mentions
             /\ content_tracker'.topic_clusters = content_tracker.topic_clusters
             /\ \A article \in ProcessedQueries :
                   is_article_processed(content_tracker', article, now)
                     <=> is_article_processed(content_tracker, article, now)]_vars

\* a post with the hash of an article was tracked last, the article was not
\* tracked: the post has its record and the article is not processed
C24_Witness ==
    \E article \in TrackerArticles :
        /\ pc = "track_generated_tweet"
        /\ article_hash(article) \in DOMAIN content_tracker.generated_tweets
        /\ Elapsed(content_tracker.generated_tweets[article_hash(article)].timestamp) = 0
        /\ article_hash(article) \notin DOMAIN content_tracker.article_hashes
        /\ ~is_article_processed(content_tracker, article, now)
\* C25 as stated: a record of an article or of a post that is stored before
\* and after a step is the same after it.
C25_RecordsNeverChange ==
    [][\A kind \in {"article_hashes", "generated_tweets"} :
          \A h \in DOMAIN content_tracker[kind] \cap DOMAIN content_tracker'[kind] :
              content_tracker'[kind][h] = content_tracker[kind][h]]_vars

\* C25, amended: in a tracker object a stored record of an article changes
\* only when track_article is called with content of its hash, and a stored
\* record of a post only when track_generated_tweet is called with a text of
\* its hash; the call replaces the record by a new one stamped with the time
\* of the call. A record leaves the store only in cleanup_old_data.
C25_RecordsChangeOnlyByTrackingAgain ==
    [][/\ \A h \in DOMAIN content_tracker.article_hashes :
             LET before == content_tracker.article_hashes
                 after == content_tracker'.article_hashes
             IN  /\ h \notin DOMAIN after => Called("cleanup_old_data")
                 /\ (h \in DOMAIN after /\ after[h] # before[h])
                       => Called("track_article")
       /\ \A h \in DOMAIN content_tracker.generated_tweets :
             LET before == content_tracker.generated_tweets
                 after == content_tracker'.generated_tweets
             IN  /\ h \notin DOMAIN after => Called("cleanup_old_data")
                 /\ (h \in DOMAIN after /\ after[h] # before[h])
                       => Called("track_generated_tweet")
       /\ Called("track_article") =>
             \E article \in TrackerArticles :
                 LET h == article_hash(article)
                     after == content_tracker'.article_hashes
                 IN  /\ h \in DOMAIN after
                     /\ after[h] = [title |-> article.title, url |-> article.link,
                                    summary |-> article.summary,
                                    timestamp |-> isoformat(now)]
                     /\ \A k \in DOMAIN after \ {h} :
                           /\ k \in DOMAIN content_tracker.article_hashes
                           /\ after[k] = content_tracker.article_hashes[k]
       /\ Called("track_generated_tweet") =>
             \E text \in TrackerTweets :
                 LET h == generate_content_hash(text)
                     after == content_tracker'.generated_tweets
                 IN  /\ h \in DOMAIN after
                     /\ after[h].text = text
                     /\ after[h].timestamp = isoformat(now)
                     /\ \A k \in DOMAIN after \ {h} :
                           /\ k \in DOMAIN content_tracker.generated_tweets
                           /\ after[k] = content_tracker.generated_tweets[k]]_vars

\* the article was tracked and saved, then tracked again later with a save
\* that failed: the record in memory carries the later time, the file still
\* holds the record it replaced
C25_Witness ==
    \E article \in TrackerArticles :
        LET h == article_hash(article)
        IN  /\ pc = "track_article"
            /\ save_error
            /\ h \in DOMAIN tracking_file.article_hashes
            /\ h \in DOMAIN content_tracker.article_hashes
            /\ Elapsed(content_tracker.article_hashes[h].timestamp) = 0
            /\ Elapsed(tracking_file.article_hashes[h].timestamp) > 0
            /\ content_tracker.article_hashes[h].title
                 = tracking_file.article_hashes[h].title
\* the hashes under which the track calls of the run at "posting" store a
\* record: its articles, and its post
TrackedArticleHashes == {article_hash(articles[i]) : i \in 1..Len(articles)}
TrackedPostHash == generate_content_hash(result[1])

\* C26: nothing keeps two tasks of the pipeline apart.  A task loads the
\* tracking data when it starts and never again; its track calls save the
\* data it loaded plus its own records, whatever the file holds by then.  So
\* the records the other task saved after this task had loaded are gone from
\* the file after this task saved.
C26_SaveOverwritesWithOwnView ==
    [][/\ (runs' # runs /\ pc' = "pools") => content_tracker' = tracking_file
       /\ (pc # "idle" /\ pc' # "idle" /\ waiting_run' = waiting_run)
             => content_tracker' = content_tracker
       /\ (pc = "posting" /\ tracking_file' # tracking_file)
             => /\ DOMAIN tracking_file'.generated_tweets
                     = DOMAIN content_tracker.generated_tweets \cup {TrackedPostHash}
                /\ DOMAIN tracking_file'.article_hashes
                     = DOMAIN content_tracker.article_hashes \cup TrackedArticleHashes
                /\ \A h \in DOMAIN tracking_file.generated_tweets :
                      h \notin DOMAIN content_tracker.generated_tweets
                                 \cup {TrackedPostHash}
                        => h \notin DOMAIN tracking_file'.generated_tweets]_vars

\* both tasks have returned, both published and tracked their post, and the
\* file holds the record of the second post only
C26_Witness ==
    /\ pc = "idle"
    /\ waiting_run = NotStarted
    /\ Len(twitter) = 2
    /\ Len(tweets_archive) = 2
    /\ tweets_archive[1].posted_to_twitter
    /\ tweets_archive[2].posted_to_twitter
    /\ generate_content_hash(tweets_archive[1].tweet)
         \notin DOMAIN tracking_file.generated_tweets
    /\ generate_content_hash(tweets_archive[2].tweet)
         \in DOMAIN tracking_file.generated_tweets
\* the keyword occurs in the characters, letter case ignored
OccursIgnoringCase(keyword, chars) ==
    \E i \in 0..(Len(chars) - Len(keyword)) :
        \A j \in 1..Len(keyword) : LowerChar(chars[i + j]) = LowerChar(keyword[j])

\* the texts the tracker has classified or can be asked to classify
ClassifiedTexts ==
    {content_tracker.generated_tweets[h].text :
        h \in DOMAIN content_tracker.generated_tweets}
      \cup {Concat3(article.title, " ", article.summary) : article \in ProcessedQueries}

\* the categories with a keyword that occurs in the text, letter case ignored
KeywordCategories ==
    [text \in Strings |->
        {category \in CategoryNames :
            \E keyword \in CATEGORIES[category] :
                OccursIgnoringCase(keyword, Chars(text))}]

\* C27: the categories of a text are a function of the text alone (the
\* operator takes no tracking data and returns none), they are among the
\* eight categories, a category is among them exactly when one of its
\* keywords occurs in the text with the letter case ignored, and the empty
\* text has no category.
C27_ClassifyByKeywords ==
    /\ Cardinality(CategoryNames) = 8
    /\ \A text \in ClassifiedTexts :
          /\ categorize_content(text) \subseteq CategoryNames
          /\ categorize_content(text) = KeywordCategories[text]
          /\ text = "" => categorize_content(text) = {}

\* the tracker stores the empty text and a text in which a keyword of
\* 'social' occurs in upper case only
C27_Witness ==
    /\ "" \in ClassifiedTexts
    /\ \E text \in ClassifiedTexts :
          /\ text \in TrackerTweets
          /\ "social" \in categorize_content(text)
          /\ \A keyword \in CATEGORIES["social"] : ~Contains(keyword, Chars(text))
\* C28: the list generate_tweet takes its categories from holds every fresh
\* category once and nothing else, with the external usage (social_themes)
\* not increasing along the list; the loop never changes the list, and a
\* category it tries after another one has at most the usage of that one.
C28_OrderingIsPermutationByUsage ==
    [][/\ (pc = "tweets" /\ pc' = "loop")
          => /\ Range(fresh_categories') = get_fresh_categories(tracking_file, now)
             /\ Len(fresh_categories') = Cardinality(get_fresh_categories(tracking_file, now))
             /\ \A i, j \in 1..Len(fresh_categories') :
                   i < j => social_themes'[fresh_categories'[i]]
                              >= social_themes'[fresh_categories'[j]]
       /\ (pc \in {"loop", "generating"} /\ pc' \in {"loop", "generating"}
             /\ waiting_run' = waiting_run)
          => /\ fresh_categories' = fresh_categories
             /\ social_themes' = social_themes
             /\ (focus_category # "" /\ focus_category' # focus_category)
                   => social_themes[focus_category'] <= social_themes[focus_category]]_vars

\* the loop is at its second category or later; the list starts with a
\* category in external use and ends with one of no external use, and a
\* category tried before has more external use than the one tried now
C28_Witness ==
    /\ pc \in {"loop", "generating"}
    /\ focus_category # ""
    /\ \E cat \in tried_categories :
          social_themes[cat] > social_themes[focus_category]
    /\ social_themes[fresh_categories[1]] > 0
    /\ social_themes[fresh_categories[Len(fresh_categories)]] = 0
    /\ Len(fresh_categories) < Cardinality(CategoryNames)
\* the draft of the response has a first word, and it is none of the phrases
OpensDifferently(resp, phrases) ==
    /\ Usable(ParseTable[resp].tweet_text)
    /\ LowerWords(ParseTable[resp].tweet_text) # <<>>
    /\ LowerWords(ParseTable[resp].tweet_text)[1] \notin phrases

\* C29: a draft whose lower-cased first word equals none of the lower-cased
\* first words of the last 5 archived posts is not rejected for its opening:
\* when it mentions no recent token either, the loop accepts it.
C29_RejectedOnlyOnEqualOpening ==
    [][(/\ pc = "generating"
        /\ response' \in Responses
        /\ OpensDifferently(response', RecentPhrases(previous_tweets))
        /\ ~MentionsRecentToken(ParseTable[response'].tweet_text,
                                RecentTokens(previous_tweets)))
       => pc' = "accepted"]_vars
\* the articles of the run that are eligible for a category: classified into
\* it, with a title that mentions no token of the recent posts
EligibleArticles(category) ==
    {i \in 1..Len(articles) :
        /\ category \in categorize_content(
               Concat3(articles[i].title, " ", articles[i].summary))
        /\ MentionedTokens(articles[i].title) \cap RecentTokens(previous_tweets) = {}}

\* the fresh categories the loop has not tried
UntriedCategories == Range(fresh_categories) \ tried_categories

\* C30: an iteration that finds no eligible article for its category marks
\* the category tried, calls no generator and still counts as one of the
\* max_retries iterations; after max_retries iterations the loop ends with
\* the empty result, whatever categories are left untried.
C30_EmptyFilterUsesAnIteration ==
    [][/\ (/\ pc = "loop"
           /\ attempt < max_retries
           /\ focus_category' \in UntriedCategories
           /\ tried_categories' # tried_categories
           /\ EligibleArticles(focus_category') = {})
          => /\ tried_categories' = tried_categories \cup {focus_category'}
             /\ filtered_articles' = <<>>
             /\ gen_calls' = gen_calls
             /\ attempt' = attempt + 1
             /\ pc' = "loop"
       /\ (pc = "loop" /\ attempt = max_retries /\ pc' # "loop")
          => /\ pc' = "exhausted"
             /\ result' = <<>>
             /\ gen_calls' = gen_calls
             /\ tried_categories' = tried_categories]_vars

\* the run ended without a call of the generator: three categories without
\* an eligible article used up the iterations, and a fresh category with an
\* eligible article was never tried
C30_Witness ==
    /\ pc = "exhausted"
    /\ attempt = max_retries
    /\ gen_calls = 0
    /\ Cardinality(tried_categories) = max_retries
    /\ \A category \in tried_categories : EligibleArticles(category) = {}
    /\ \E category \in UntriedCategories : EligibleArticles(category) # {}
\* the draft of the last response was rejected for a recent phrase or token
DraftReusedPattern ==
    /\ response \in Responses
    /\ Usable(ParseTable[response].tweet_text)
    /\ LowerWords(ParseTable[response].tweet_text) # <<>>
    /\ \/ UsesRecentPhrase(ParseTable[response].tweet_text,
                           RecentPhrases(previous_tweets))
       \/ MentionsRecentToken(ParseTable[response].tweet_text,
                              RecentTokens(previous_tweets))

\* C31: every iteration of the loop that goes on adds one category to the
\* tried set, whatever its outcome: between iterations the set holds as many
\* categories as iterations are over, and during an iteration one more, the
\* category of the iteration.
C31_OneCategoryPerIteration ==
    /\ pc = "loop" => Cardinality(tried_categories) = attempt
    /\ pc \in {"generating", "accepted"}
          => /\ Cardinality(tried_categories) = attempt + 1
             /\ focus_category \in tried_categories
    /\ pc \in {"loop", "generating", "accepted", "exhausted"}
          => /\ tried_categories \subseteq Range(fresh_categories)
             /\ attempt <= max_retries

\* two iterations are over, the second one rejected its draft for a recent
\* phrase or token: two categories are tried
C31_Witness ==
    /\ pc = "loop"
    /\ attempt = 2
    /\ gen_calls = 2
    /\ DraftReusedPattern
    /\ Cardinality(tried_categories) = 2
\* the positions of the last five entries of an archive
RecentEntries(tweets) == {i \in 1..Len(tweets) : i > Len(tweets) - 5}

\* the tokens the last five entries mention, and their lower-cased first words
TokensOfRecentEntries(tweets) ==
    {token \in Range(TokenList) :
        \E i \in RecentEntries(tweets) : token \in MentionedTokens(tweets[i].tweet)}
OpeningsOfRecentEntries(tweets) ==
    {LowerWords(tweets[i].tweet)[1] : i \in RecentEntries(tweets)}

\* C32: generate_tweet loads the archive once, before the loop, and every
\* attempt of the run works with the archive as loaded.  Of that archive only
\* the last five entries count: an article is kept for the category of the
\* attempt exactly when it is classified into it and its title mentions no
\* token of the last five entries, and a draft with a first word is rejected
\* exactly when the word holds the first word of one of the last five entries
\* or the draft mentions a token of the last five entries.
C32_OnlyLastFiveAsLoaded ==
    [][/\ (pc = "tweets" /\ pc' = "loop") => previous_tweets' = tweets_archive
       /\ (pc \in {"loop", "generating"} /\ pc' # "idle")
             => previous_tweets' = previous_tweets
       /\ (pc = "loop" /\ tried_categories' # tried_categories)
             => \A i \in 1..Len(articles) :
                   articles[i] \in Range(filtered_articles')
                     <=> /\ focus_category' \in categorize_content(
                                Concat3(articles[i].title, " ", articles[i].summary))
                         /\ MentionedTokens(articles[i].title)
                              \cap TokensOfRecentEntries(previous_tweets) = {}
       /\ (/\ pc = "generating"
           /\ response' \in Responses
           /\ Usable(ParseTable[response'].tweet_text)
           /\ LowerWords(ParseTable[response'].tweet_text) # <<>>)
             => (pc' = "loop"
                   <=> \/ \E opening \in OpeningsOfRecentEntries(previous_tweets) :
                             Contains(opening,
                                      LowerWords(ParseTable[response'].tweet_text)[1])
                       \/ MentionedTokens(ParseTable[response'].tweet_text)
                            \cap TokensOfRecentEntries(previous_tweets) # {})]_vars

\* the archive as loaded holds more than five entries and only an entry
\* before the last five mentions Bitcoin; in its second attempt or later the
\* loop accepted a draft about Bitcoin made from an article about Bitcoin
C32_Witness ==
    /\ pc = "accepted"
    /\ attempt >= 1
    /\ Len(previous_tweets) > 5
    /\ \E i \in 1..Len(previous_tweets) :
          /\ i \notin RecentEntries(previous_tweets)
          /\ "Bitcoin" \in MentionedTokens(previous_tweets[i].tweet)
    /\ "Bitcoin" \in MentionedTokens(result[1])
    /\ \E i \in 1..Len(filtered_articles) :
          "Bitcoin" \in MentionedTokens(filtered_articles[i].title)
\* C33: the tweet archive changes only when post_tweet returns, by one entry
\* appended for the draft of the run: flagged as posted exactly when the post
\* was published with success, which is when it was tracked.  A run reaches
\* post_tweet only with a draft that passed the similarity check, and at most
\* once, so the archive never holds more entries than runs were started.
C33_OneArchiveEntryPerPassedDraft ==
    [][/\ (pc = "posting" /\ pc' = "idle")
          => /\ Len(tweets_archive') = Len(tweets_archive) + 1
             /\ SubSeq(tweets_archive', 1, Len(tweets_archive)) = tweets_archive
             /\ LET entry == tweets_archive'[Len(tweets_archive')]
                IN  /\ entry.tweet = result[1]
                    /\ entry.reasoning = result[2]
                    /\ entry.posted_to_twitter
                          => /\ twitter' = Append(twitter, result[1])
                             /\ TrackedPostHash \in DOMAIN tracking_file'.generated_tweets
                             /\ tracking_file'.generated_tweets[TrackedPostHash].timestamp
                                  = isoformat(now)
                    /\ ~entry.posted_to_twitter => tracking_file' = tracking_file
       /\ ~(pc = "posting" /\ pc' = "idle") => tweets_archive' = tweets_archive
       /\ (pc # "posting" /\ pc' = "posting")
          => /\ pc = "accepted"
             /\ ~TooSimilar(result[1], content_tracker, now)
       /\ Len(tweets_archive') <= runs']_vars

\* two runs are over and both archived their draft: the first was not
\* published, the second was
C33_Witness ==
    /\ pc = "idle"
    /\ runs = 2
    /\ Len(tweets_archive) = 2
    /\ ~tweets_archive[1].posted_to_twitter
    /\ tweets_archive[2].posted_to_twitter
    /\ Len(twitter) = 1
\* C34: when a run publishes its post, every article the run passed to the
\* loop is tracked as processed from then on, and a run that starts less than
\* 48 hours after an article was tracked does not offer that article to the
\* loop.
C34_PublishedArticlesNotOfferedAgain ==
    [][/\ twitter' # twitter
          => \A i \in 1..Len(articles) :
                is_article_processed(tracking_file', articles[i], now)
       /\ runs' # runs
          => \A i \in 1..Len(available_articles') :
                LET h == article_hash(available_articles'[i])
                IN  h \in DOMAIN tracking_file.article_hashes
                      => Elapsed(tracking_file.article_hashes[h].timestamp) >= 48]_vars

\* C34 for the runs whose post_tweet reported the success (checked to tell
\* the two halves of the claim apart; it holds)
C34_ConfirmedArticlesNotOfferedAgain ==
    [][/\ (twitter' # twitter
             /\ tweets_archive'[Len(tweets_archive')].posted_to_twitter)
          => \A i \in 1..Len(articles) :
                is_article_processed(tracking_file', articles[i], now)
       /\ runs' # runs
          => \A i \in 1..Len(available_articles') :
                LET h == article_hash(available_articles'[i])
                IN  h \in DOMAIN tracking_file.article_hashes
                      => Elapsed(tracking_file.article_hashes[h].timestamp) >= 48]_vars

\* the ids of a list of tweets
IdsOf(tweets) == {tweets[i].id : i \in 1..Len(tweets)}

\* a user's list is short, without a repeated id, and newest first
WellKept(tweets) ==
    /\ Len(tweets) <= CacheSize
    /\ \A i, j \in 1..Len(tweets) : i # j => tweets[i].id # tweets[j].id
    /\ \A i, j \in 1..Len(tweets) :
          i < j => tweets[i].created_at >= tweets[j].created_at

\* kept is a choice of the 10 most recent of the tweets of cached and supplied
TenMostRecent(kept, cached, supplied) ==
    LET pool == Range(cached) \cup Range(supplied)
        pool_ids == {t.id : t \in pool}
    IN  /\ Range(kept) \subseteq pool
        /\ Cardinality(IdsOf(kept)) =
              IF Cardinality(pool_ids) <= CacheSize
              THEN Cardinality(pool_ids) ELSE CacheSize
        /\ \A t \in pool : t.id \notin IdsOf(kept) =>
              \A k \in Range(kept) : k.created_at >= t.created_at

RetriedOutcomes == {"connection_error", "rate_limit", "server_error"}

\* how a request of post_tweet must have ended, given the outcome of its
\* last call
EndingOf(outcome) ==
    CASE outcome = "ok" -> "returned"
      [] outcome = "unexpected" -> "raised_unexpected"
      [] outcome = "connection_error" -> "raised_connection_error"
      [] OTHER -> "returned_none"

\* C36: _make_twitter_request calls the request function at most max_retries
\* (3) times, and never again after a success or an unexpected exception;
\* when it ends, it has returned the result of its first successful call,
\* or re-raised the unexpected exception or the connection error of the final
\* attempt.
C36_BoundedRetries ==
    [][ LET log == post_call.log
            n == Len(log)
        IN  /\ Len(post_call'.log) <= twitter_max_retries
            /\ \A i \in 1..(Len(post_call'.log) - 1) :
                  post_call'.log[i] \in RetriedOutcomes
            /\ (post_call.step = "create_tweet" /\ post_call'.step # "create_tweet")
               => /\ n >= 1
                  /\ post_call'.response = EndingOf(log[n])
                  /\ log[n] \in RetriedOutcomes => n = twitter_max_retries
            /\ (post_call.step = "get_me" /\ post_call'.step # "get_me")
               => /\ n >= 1
                  /\ post_call'.me = EndingOf(log[n])
                  /\ log[n] \in RetriedOutcomes => n = twitter_max_retries
      ]_vars

\* get_me has raised the connection error of its third call, after
\* create_tweet has answered
C36_Witness ==
    /\ pc = "posting"
    /\ post_call.step = "returned"
    /\ post_call.response = "returned"
    /\ post_call.me = "raised_connection_error"

\* every call of the log ended in a rate limit or a server error
AllThrottled(log) ==
    /\ Len(log) = twitter_max_retries
    /\ \A i \in 1..Len(log) : log[i] \in {"rate_limit", "server_error"}

\* C37: when every one of the max_retries attempts of _make_twitter_request
\* ends in a rate-limit or server error, the wrapper returns None without
\* raising, post_tweet reports False (the archived post is marked as not
\* posted), and the run tracks nothing.
C37_ThrottledPostTracksNothing ==
    [][ /\ (/\ post_call.step \in {"create_tweet", "get_me"}
            /\ AllThrottled(post_call.log)
            /\ post_call' # post_call)
           => /\ post_call'.step = "returned"
              /\ post_call.step = "create_tweet"
                 => post_call'.response = "returned_none"
              /\ post_call.step = "get_me" => post_call'.me = "returned_none"
        /\ (/\ post_call.step = "returned"
            /\ "returned_none" \in {post_call.response, post_call.me}
            /\ pc' = "idle")
           => /\ tracking_file' = tracking_file
              /\ Len(tweets_archive') = Len(tweets_archive) + 1
              /\ ~tweets_archive'[Len(tweets_archive')].posted_to_twitter
      ]_vars

\* a second run whose create_tweet was throttled three times, after a first
\* run that tracked nothing
C37_Witness ==
    /\ pc = "posting"
    /\ runs = 2
    /\ post_call.step = "returned"
    /\ post_call.response = "returned_none"
    /\ tracking_file = EmptyTrackingData
    /\ Len(tweets_archive) = 1
    /\ ~tweets_archive[1].posted_to_twitter

\* the number of places of seq that hold x
TimesIn(seq, x) == Cardinality({k \in 1..Len(seq) : seq[k] = x})

\* the links of the items of an archive, in order
ItemLinks(archive) == [k \in 1..Len(archive.items) |-> archive.items[k].link]

\* every processed link is recorded once and has exactly one item, and every
\* item's link is processed
OneItemPerProcessedLink(archive) ==
    \A link \in Range(archive.processed_urls) \cup Range(ItemLinks(archive)) :
        /\ TimesIn(archive.processed_urls, link) = 1
        /\ TimesIn(ItemLinks(archive), link) = 1

\* the archive the running task holds after a step: the saved file once the
\* task has returned
ArchiveAfterStep ==
    IF summary_task'.pc = "idle" THEN summaries_archive'
    ELSE summary_task'.summaries_archive

C39_OverlapKeepsEveryItem ==
    [][ /\ \A link \in Range(summaries_archive'.processed_urls) :
              TimesIn(summaries_archive'.processed_urls, link) = 1
        /\ Range(summaries_archive.items) \subseteq Range(summaries_archive'.items)
      ]_vars

\* overlapping runs never leave a link recorded twice, in the file or in a
\* task; the file is always the archive of the task that saved last
C39_OverlapRecordsNoLinkTwice ==
    [][ /\ OneItemPerProcessedLink(summaries_archive')
        /\ summaries_archive' # summaries_archive
           => /\ summary_task.pc = "generate_summary"
              /\ summary_task'.pc = "idle"
              /\ \A k \in 1..Len(summary_task.summaries_archive.items) :
                    summaries_archive'.items[k] =
                       summary_task.summaries_archive.items[k]
      ]_vars

=============================================================================
